---- MODULE Spec2Model ----
(***************************************************************************)
(* A model of the core of the hive chess engine: the Board value type      *)
(* (FEN construction, incremental make_move / make_null_move, is_valid,    *)
(* legal), the Position move stack with is_draw, the Histories tables and  *)
(* the staged MoveOrder cursor.                                            *)
(*                                                                         *)
(* Representation choices:                                                 *)
(*  - a Bitboard is the set of its squares (0..63);                        *)
(*  - a Move is its packed 16-bit integer from + 64*to + 4096*type;        *)
(*  - a Hash is the set of Zobrist terms that occur in it an odd number of *)
(*    times, so that XOR is symmetric difference (the free model of XOR    *)
(*    over the Zobrist constants: two hashes that are equal here are equal *)
(*    for every choice of constants);                                      *)
(*  - a FEN string is the sequence of its characters.                      *)
(***************************************************************************)
EXTENDS Integers, Sequences, FiniteSets, TLC

(***************************************************************************)
(* Types (types.hpp)                                                       *)
(***************************************************************************)
NUM_SQUARES == 64
SQUARE_NULL == 64
Squares == 0 .. (NUM_SQUARES - 1)

WHITE == 0
BLACK == 1
Turns == {WHITE, BLACK}

PAWN == 0
KNIGHT == 1
BISHOP == 2
ROOK == 3
QUEEN == 4
KING == 5
PIECE_NONE == 6
PieceTypes == PAWN .. KING

KINGSIDE == 0
QUEENSIDE == 1
NO_SIDE == 2
CastleSides == {KINGSIDE, QUEENSIDE}

\* Piece = (PieceType, Turn); NO_PIECE has the byte value of PIECE_NONE.
NO_PIECE == 6
get_piece(piece, turn) == piece + 8 * turn
get_piece_type(pc) == pc % 8
get_turn(pc) == pc \div 8

file(sq) == sq % 8
rank(sq) == sq \div 8
make_square(r, f) == 8 * r + f
OtherTurn(turn) == 1 - turn
turn_to_color(turn) == IF turn = WHITE THEN 1 ELSE -1

SQUARE_A1 == 0
SQUARE_H1 == 7
SQUARE_A8 == 56
SQUARE_H8 == 63

Min(a, b) == IF a < b THEN a ELSE b
Max(a, b) == IF a > b THEN a ELSE b
Xor(h, k) == (h \ k) \cup (k \ h)

(***************************************************************************)
(* Move (move.hpp): from:6, to:6, type:4                                   *)
(***************************************************************************)
QUIET_MOVE == 0
DOUBLE_PAWN_PUSH == 1
KING_CASTLE == 2
QUEEN_CASTLE == 3
CAPTURE == 4
EP_CAPTURE == 5
INVALID_1 == 6
INVALID_2 == 7
KNIGHT_PROMO == 8
KNIGHT_PROMO_CAPTURE == 12
MOVE_NULL == 0

MakeMove(f, t, ty) == f + 64 * t + 4096 * ty
from(m) == m % 64
to(m) == (m \div 64) % 64
move_type(m) == m \div 4096
is_capture(m) == (move_type(m) \div 4) % 2 = 1
is_ep_capture(m) == move_type(m) = EP_CAPTURE
is_double_pawn_push(m) == move_type(m) = DOUBLE_PAWN_PUSH
is_castle(m) == move_type(m) \in {KING_CASTLE, QUEEN_CASTLE}
is_promotion(m) == move_type(m) \div 8 = 1
promo_piece(m) == KNIGHT + (move_type(m) % 4)

(***************************************************************************)
(* Bitboard attack tables (bitboard.hpp, contract of spec 4.1)             *)
(***************************************************************************)
OnBoard(f, r) == f \in 0 .. 7 /\ r \in 0 .. 7

StepAttacks(sq, steps) ==
    { make_square(rank(sq) + d[2], file(sq) + d[1]) :
        d \in { e \in steps : OnBoard(file(sq) + e[1], rank(sq) + e[2]) } }

KnightSteps == { <<1, 2>>, <<2, 1>>, <<2, -1>>, <<1, -2>>,
                 <<-1, -2>>, <<-2, -1>>, <<-2, 1>>, <<-1, 2>> }
KingSteps == { <<1, 0>>, <<1, 1>>, <<0, 1>>, <<-1, 1>>,
               <<-1, 0>>, <<-1, -1>>, <<0, -1>>, <<1, -1>> }
RookDirs == { <<1, 0>>, <<-1, 0>>, <<0, 1>>, <<0, -1>> }
BishopDirs == { <<1, 1>>, <<1, -1>>, <<-1, 1>>, <<-1, -1>> }

KnightAttacks == [ sq \in Squares |-> StepAttacks(sq, KnightSteps) ]
KingAttacks == [ sq \in Squares |-> StepAttacks(sq, KingSteps) ]
\* PawnAttacks[turn][sq]: the squares a pawn of `turn` on sq attacks.
PawnAttacks ==
    [ turn \in Turns |-> [ sq \in Squares |->
        StepAttacks(sq, IF turn = WHITE THEN { <<1, 1>>, <<-1, 1>> }
                                        ELSE { <<1, -1>>, <<-1, -1>> }) ] ]

RayLen(sq, d) ==
    Min(IF d[1] = 1 THEN 7 - file(sq) ELSE IF d[1] = -1 THEN file(sq) ELSE 7,
        IF d[2] = 1 THEN 7 - rank(sq) ELSE IF d[2] = -1 THEN rank(sq) ELSE 7)
\* Ray[sq][d]: the squares from sq in direction d, nearest first.
Ray ==
    [ sq \in Squares |-> [ d \in RookDirs \cup BishopDirs |->
        [ k \in 1 .. RayLen(sq, d) |->
            make_square(rank(sq) + k * d[2], file(sq) + k * d[1]) ] ] ]

\* The squares of a ray up to and including the first occupied one.
RayHits(r, occ) ==
    { r[i] : i \in { k \in 1 .. Len(r) : \A j \in 1 .. (k - 1) : r[j] \notin occ } }
SlideAttacks(sq, occ, dirs) == UNION { RayHits(Ray[sq][d], occ) : d \in dirs }

\* attacks(piece, sq, occ) for the non-pawn pieces.
PieceAttacks(piece, sq, occ) ==
    CASE piece = KNIGHT -> KnightAttacks[sq]
      [] piece = BISHOP -> SlideAttacks(sq, occ, BishopDirs)
      [] piece = ROOK   -> SlideAttacks(sq, occ, RookDirs)
      [] piece = QUEEN  -> SlideAttacks(sq, occ, RookDirs \cup BishopDirs)
      [] piece = KING   -> KingAttacks[sq]

(***************************************************************************)
(* Zobrist terms (zobrist.hpp), piece-square tables and phases             *)
(***************************************************************************)
get_piece_turn_square(piece, turn, sq) == piece * 128 + turn * 64 + sq
get_black_move == 768
get_ep_file(f) == 769 + f
get_castle_side_turn(side, turn) == 777 + 2 * side + turn

\* MixedScore: <<middlegame, endgame>>
MixedAdd(a, b) == << a[1] + b[1], a[2] + b[2] >>
MixedMul(a, k) == << a[1] * k, a[2] * k >>
piece_value == << <<100, 120>>, <<320, 300>>, <<330, 320>>,
                  <<500, 550>>, <<950, 1000>>, <<0, 0>> >>
\* piece_square(piece, sq, turn): a table mirrored vertically for BLACK.
RelSquare(sq, turn) == IF turn = WHITE THEN sq ELSE make_square(7 - rank(sq), file(sq))
piece_square(piece, sq, turn) ==
    << (piece + 1) * rank(RelSquare(sq, turn)) + file(sq),
       (6 - piece) * rank(RelSquare(sq, turn)) - file(sq) >>

PhaseTotal == 24
PhasePieces == << 0, 1, 1, 2, 4, 0 >>
U8(n) == n % 256

(***************************************************************************)
(* Board (position.hpp / position.cpp)                                     *)
(***************************************************************************)
bitscan_forward(bb) == CHOOSE sq \in bb : \A o \in bb : sq <= o

get_pieces_of(b, turn) == UNION { b.m_pieces[p][turn] : p \in PieceTypes }
get_pieces(b) == get_pieces_of(b, WHITE) \cup get_pieces_of(b, BLACK)
get_piece_at(b, sq) == get_piece_type(b.m_board_pieces[sq])

set_piece(b, piece, turn, sq) ==
    [ b EXCEPT
        !.m_pieces[piece][turn] = @ \cup {sq},
        !.m_board_pieces[sq] = get_piece(piece, turn),
        !.m_hash = Xor(@, { get_piece_turn_square(piece, turn, sq) }),
        !.m_psq = MixedAdd(@, MixedMul(MixedAdd(piece_value[piece + 1],
                                                piece_square(piece, sq, turn)),
                                       turn_to_color(turn))),
        !.m_phase = U8(@ - PhasePieces[piece + 1]) ]

pop_piece(b, piece, turn, sq) ==
    [ b EXCEPT
        !.m_pieces[piece][turn] = @ \ {sq},
        !.m_board_pieces[sq] = NO_PIECE,
        !.m_hash = Xor(@, { get_piece_turn_square(piece, turn, sq) }),
        !.m_psq = MixedAdd(@, MixedMul(MixedAdd(piece_value[piece + 1],
                                                piece_square(piece, sq, turn)),
                                       - turn_to_color(turn))),
        !.m_phase = U8(@ + PhasePieces[piece + 1]) ]

move_piece(b, piece, turn, f, t) ==
    set_piece(pop_piece(b, piece, turn, f), piece, turn, t)

\* set_castling<SET>(side, turn): the hash term follows the right.
set_castling(b, SET, side, turn) ==
    IF b.m_castling_rights[side][turn] = SET THEN b
    ELSE [ b EXCEPT
            !.m_castling_rights[side][turn] = SET,
            !.m_hash = Xor(@, { get_castle_side_turn(side, turn) }) ]

\* attackers<TURN>(square, occupancy): the pieces of `turn` attacking square.
attackers(b, sq, occ, turn) ==
    (PawnAttacks[OtherTurn(turn)][sq] \cap b.m_pieces[PAWN][turn])
    \cup (KnightAttacks[sq] \cap b.m_pieces[KNIGHT][turn])
    \cup (KingAttacks[sq] \cap b.m_pieces[KING][turn])
    \cup (SlideAttacks(sq, occ, BishopDirs)
            \cap (b.m_pieces[BISHOP][turn] \cup b.m_pieces[QUEEN][turn]))
    \cup (SlideAttacks(sq, occ, RookDirs)
            \cap (b.m_pieces[ROOK][turn] \cup b.m_pieces[QUEEN][turn]))

update_checkers(b) ==
    [ b EXCEPT !.m_checkers =
        attackers(b, bitscan_forward(b.m_pieces[KING][b.m_turn]),
                  get_pieces(b), OtherTurn(b.m_turn)) ]

(***************************************************************************)
(* FEN characters and Board::Board(std::string)                            *)
(***************************************************************************)
DigitValue == [ c \in {"0", "1", "2", "3", "4", "5", "6", "7", "8", "9"} |->
    CASE c = "0" -> 0 [] c = "1" -> 1 [] c = "2" -> 2 [] c = "3" -> 3
      [] c = "4" -> 4 [] c = "5" -> 5 [] c = "6" -> 6 [] c = "7" -> 7
      [] c = "8" -> 8 [] c = "9" -> 9 ]
FileValue == [ c \in {"a", "b", "c", "d", "e", "f", "g", "h"} |->
    CASE c = "a" -> 0 [] c = "b" -> 1 [] c = "c" -> 2 [] c = "d" -> 3
      [] c = "e" -> 4 [] c = "f" -> 5 [] c = "g" -> 6 [] c = "h" -> 7 ]
isdigit(c) == c \in DOMAIN DigitValue
isspace(c) == c = " "
isupper(c) == c \in {"P", "N", "B", "R", "Q", "K"}
tolower(c) ==
    CASE c = "P" -> "p" [] c = "N" -> "n" [] c = "B" -> "b"
      [] c = "R" -> "r" [] c = "Q" -> "q" [] c = "K" -> "k" [] OTHER -> c

fen_piece(c) ==
    LET lower == tolower(c)
    IN  CASE lower = "p" -> PAWN [] lower = "n" -> KNIGHT [] lower = "b" -> BISHOP
          [] lower = "r" -> ROOK [] lower = "q" -> QUEEN [] lower = "k" -> KING
          [] OTHER -> PIECE_NONE

fen_castle_side(c) ==
    LET lower == tolower(c)
    IN  CASE lower = "k" -> KINGSIDE [] lower = "q" -> QUEENSIDE [] OTHER -> NO_SIDE

EmptyBoard ==
    [ m_pieces |-> [ p \in PieceTypes |-> [ t \in Turns |-> {} ] ],
      m_board_pieces |-> [ sq \in Squares |-> NO_PIECE ],
      m_turn |-> WHITE,
      m_castling_rights |-> [ s \in CastleSides |-> [ t \in Turns |-> FALSE ] ],
      m_enpassant_square |-> SQUARE_NULL,
      m_half_move_clock |-> 0,
      m_full_move_clock |-> 0,
      m_hash |-> {},
      m_psq |-> <<0, 0>>,
      m_phase |-> PhaseTotal,
      m_checkers |-> {} ]

\* Each Read* operator is one loop of the constructor; st = [c, b, square]
\* with c the index of the character under the cursor.
RECURSIVE ReadPlacement(_, _)
ReadPlacement(fen, st) ==
    IF st.c <= Len(fen) /\ ~isspace(fen[st.c])
    THEN LET ch == fen[st.c]
         IN  ReadPlacement(fen,
                IF isdigit(ch)
                THEN [ st EXCEPT !.c = @ + 1, !.square = @ + DigitValue[ch] ]
                ELSE IF ch = "/"
                THEN [ st EXCEPT !.c = @ + 1, !.square = @ - 16 ]
                ELSE [ c |-> st.c + 1, square |-> st.square + 1,
                       b |-> set_piece(st.b, fen_piece(ch),
                                       IF isupper(ch) THEN WHITE ELSE BLACK,
                                       st.square) ])
    ELSE st

RECURSIVE ReadTurn(_, _)
ReadTurn(fen, st) ==
    IF st.c + 1 <= Len(fen) /\ ~isspace(fen[st.c + 1])
    THEN ReadTurn(fen, [ st EXCEPT !.c = @ + 1,
                            !.b.m_turn = IF fen[st.c + 1] = "w" THEN WHITE ELSE BLACK ])
    ELSE [ st EXCEPT !.c = @ + 1 ]

RECURSIVE ReadCastling(_, _)
ReadCastling(fen, st) ==
    IF st.c + 1 <= Len(fen) /\ ~isspace(fen[st.c + 1])
    THEN LET ch == fen[st.c + 1]
         IN  ReadCastling(fen, [ st EXCEPT !.c = @ + 1,
                !.b = IF fen_castle_side(ch) # NO_SIDE
                      THEN set_castling(@, TRUE, fen_castle_side(ch),
                                        IF isupper(ch) THEN WHITE ELSE BLACK)
                      ELSE @ ])
    ELSE [ st EXCEPT !.c = @ + 1 ]

RECURSIVE ReadEp(_, _)
ReadEp(fen, st) ==
    IF st.c + 1 <= Len(fen) /\ ~isspace(fen[st.c + 1])
    THEN LET c1 == st.c + 1
         IN  IF fen[c1] # "-" /\ c1 + 1 <= Len(fen) /\ ~isspace(fen[c1 + 1])
             THEN ReadEp(fen, [ st EXCEPT !.c = c1 + 1,
                     !.b.m_enpassant_square =
                        make_square(DigitValue[fen[c1 + 1]] - 1, FileValue[fen[c1]]) ])
             ELSE ReadEp(fen, [ st EXCEPT !.c = IF fen[c1] # "-" THEN c1 + 1 ELSE c1 ])
    ELSE [ st EXCEPT !.c = @ + 1 ]

RECURSIVE ReadNumber(_, _, _)
ReadNumber(fen, c, n) ==
    IF c + 1 <= Len(fen) /\ ~isspace(fen[c + 1])
    THEN ReadNumber(fen, c + 1, n * 10 + DigitValue[fen[c + 1]])
    ELSE << c + 1, n >>

BoardFromFen(fen) ==
    LET s1 == ReadPlacement(fen, [ c |-> 1, square |-> SQUARE_A8, b |-> EmptyBoard ])
        s2 == ReadTurn(fen, s1)
        s3 == ReadCastling(fen, s2)
        s4 == ReadEp(fen, s3)
        hm == ReadNumber(fen, s4.c, 0)
        fm == ReadNumber(fen, hm[1], 0)
        b4 == [ s4.b EXCEPT !.m_half_move_clock = hm[2],
                            !.m_full_move_clock = Max(fm[2], 1) ]
        b5 == IF b4.m_turn = BLACK
              THEN [ b4 EXCEPT !.m_hash = Xor(@, { get_black_move }) ] ELSE b4
        b6 == IF b5.m_enpassant_square # SQUARE_NULL
              THEN [ b5 EXCEPT !.m_hash =
                        Xor(@, { get_ep_file(file(b5.m_enpassant_square)) }) ]
              ELSE b5
    IN  update_checkers(b6)

(***************************************************************************)
(* Move generation: generate_moves<TURN>(list, type) (position.hpp)        *)
(***************************************************************************)
Up(turn) == IF turn = WHITE THEN 8 ELSE -8
PromoRank(turn) == IF turn = WHITE THEN 7 ELSE 0
StartRank(turn) == IF turn = WHITE THEN 1 ELSE 6
HomeRank(turn) == IF turn = WHITE THEN 0 ELSE 7

\* A pawn move to t: the four promotions on the last rank, else the plain type.
PawnTypes(turn, f, t, plain, promo) ==
    IF rank(t) = PromoRank(turn)
    THEN { MakeMove(f, t, promo + k) : k \in 0 .. 3 }
    ELSE { MakeMove(f, t, plain) }

PawnMoves(b, turn, f) ==
    LET occ   == get_pieces(b)
        enemy == get_pieces_of(b, OtherTurn(turn))
        t1    == f + Up(turn)
        t2    == f + 2 * Up(turn)
    IN  (IF t1 \in Squares /\ t1 \notin occ
         THEN PawnTypes(turn, f, t1, QUIET_MOVE, KNIGHT_PROMO) ELSE {})
        \cup (IF rank(f) = StartRank(turn) /\ t1 \notin occ /\ t2 \notin occ
              THEN { MakeMove(f, t2, DOUBLE_PAWN_PUSH) } ELSE {})
        \cup UNION { PawnTypes(turn, f, t, CAPTURE, KNIGHT_PROMO_CAPTURE) :
                        t \in PawnAttacks[turn][f] \cap enemy }
        \cup { MakeMove(f, t, EP_CAPTURE) :
                        t \in PawnAttacks[turn][f] \cap { b.m_enpassant_square } }

PieceMoves(b, turn, piece, f) ==
    LET enemy == get_pieces_of(b, OtherTurn(turn))
    IN  { MakeMove(f, t, IF t \in enemy THEN CAPTURE ELSE QUIET_MOVE) :
            t \in PieceAttacks(piece, f, get_pieces(b)) \ get_pieces_of(b, turn) }

\* Castling: rights held, squares between king and rook empty, and the king's
\* square and path not attacked.
CanCastle(b, turn, side) ==
    LET occ == get_pieces(b)
        e   == make_square(HomeRank(turn), 4)
        between == IF side = KINGSIDE THEN { e + 1, e + 2 } ELSE { e - 1, e - 2, e - 3 }
        path    == IF side = KINGSIDE THEN { e, e + 1, e + 2 } ELSE { e, e - 1, e - 2 }
    IN  /\ b.m_castling_rights[side][turn]
        /\ between \cap occ = {}
        /\ \A sq \in path : attackers(b, sq, occ, OtherTurn(turn)) = {}

CastleMoves(b, turn) ==
    LET e == make_square(HomeRank(turn), 4)
    IN  (IF CanCastle(b, turn, KINGSIDE) THEN { MakeMove(e, e + 2, KING_CASTLE) } ELSE {})
        \cup (IF CanCastle(b, turn, QUEENSIDE)
              THEN { MakeMove(e, e - 2, QUEEN_CASTLE) } ELSE {})

PseudoLegal(b) ==
    LET turn == b.m_turn
    IN  UNION { PawnMoves(b, turn, f) : f \in b.m_pieces[PAWN][turn] }
        \cup UNION { UNION { PieceMoves(b, turn, piece, f) : f \in b.m_pieces[piece][turn] } :
                        piece \in KNIGHT .. KING }
        \cup CastleMoves(b, turn)

\* After the move our king is not attacked: the mover leaves `from`, the
\* captured piece (on `to`, or behind it for ep) disappears, the mover stands on `to`.
KingSafeAfter(b, m) ==
    LET turn   == b.m_turn
        target == IF is_ep_capture(m) THEN to(m) - Up(turn) ELSE to(m)
        gone   == IF is_capture(m) THEN { target } ELSE {}
        occ    == ((get_pieces(b) \ { from(m) }) \ gone) \cup { to(m) }
        king   == IF get_piece_at(b, from(m)) = KING THEN to(m)
                  ELSE bitscan_forward(b.m_pieces[KING][turn])
    IN  attackers(b, king, occ, OtherTurn(turn)) \ gone = {}

\* A MoveList is the sequence of its moves; the generator emits in square order.
RECURSIVE SetToList(_)
SetToList(S) ==
    IF S = {} THEN << >>
    ELSE LET m == CHOOSE x \in S : \A y \in S : x <= y
         IN  << m >> \o SetToList(S \ { m })

generate_moves(b, type) ==
    SetToList(CASE type = "CAPTURES" -> { m \in PseudoLegal(b) : is_capture(m) }
                [] type = "QUIETS"   -> { m \in PseudoLegal(b) : ~is_capture(m) }
                [] type = "LEGAL"    -> { m \in PseudoLegal(b) : KingSafeAfter(b, m) })

(***************************************************************************)
(* Board::legal(move) and legal<PIECE>(move, occupancy)                    *)
(***************************************************************************)
legal_piece(b, piece, m, occ) ==
    LET turn == b.m_turn
        f == from(m)
        t == to(m)
        geometry ==
            CASE piece = PAWN ->
                    /\ is_promotion(m) <=> (rank(t) = PromoRank(turn))
                    /\ IF is_capture(m) THEN t \in PawnAttacks[turn][f]
                       ELSE IF is_double_pawn_push(m)
                       THEN /\ rank(f) = StartRank(turn)
                            /\ t = f + 2 * Up(turn)
                            /\ (f + Up(turn)) \notin occ
                       ELSE t = f + Up(turn)
              [] piece = KING /\ is_castle(m) ->
                    /\ f = make_square(HomeRank(turn), 4)
                    /\ t = (IF move_type(m) = KING_CASTLE THEN f + 2 ELSE f - 2)
                    /\ CanCastle(b, turn, IF move_type(m) = KING_CASTLE
                                          THEN KINGSIDE ELSE QUEENSIDE)
              [] OTHER -> t \in PieceAttacks(piece, f, occ)
    IN  geometry /\ KingSafeAfter(b, m)

legal_structure_NoTypeCheck(b, m) ==
    LET our_pieces == get_pieces_of(b, b.m_turn)
        piece == get_piece_at(b, from(m))
        enemy_pieces ==
            (get_pieces(b) \ our_pieces)
            \cup (IF is_ep_capture(m) /\ piece = PAWN /\ b.m_enpassant_square # SQUARE_NULL
                  THEN { b.m_enpassant_square } ELSE {})
    IN  IF from(m) = to(m) THEN FALSE
        ELSE IF is_ep_capture(m) /\ (b.m_enpassant_square = SQUARE_NULL
                                     \/ to(m) # b.m_enpassant_square) THEN FALSE
        ELSE IF from(m) \notin our_pieces \/ to(m) \in our_pieces THEN FALSE
        ELSE IF (to(m) \in enemy_pieces) # is_capture(m) THEN FALSE
        ELSE IF piece # PAWN /\ (is_double_pawn_push(m) \/ is_ep_capture(m)
                                 \/ is_promotion(m)) THEN FALSE
        ELSE IF piece # KING /\ is_castle(m) THEN FALSE
        ELSE TRUE

\* The checks of Board::legal that precede the per-piece dispatch.
legal_structure(b, m) ==
    LET our_pieces == get_pieces_of(b, b.m_turn)
        piece == get_piece_at(b, from(m))
        enemy_pieces ==
            (get_pieces(b) \ our_pieces)
            \cup (IF is_ep_capture(m) /\ piece = PAWN /\ b.m_enpassant_square # SQUARE_NULL
                  THEN { b.m_enpassant_square } ELSE {})
    IN  IF from(m) = to(m) THEN FALSE
        ELSE IF is_ep_capture(m) /\ (b.m_enpassant_square = SQUARE_NULL
                                     \/ to(m) # b.m_enpassant_square) THEN FALSE
        ELSE IF move_type(m) = INVALID_1 \/ move_type(m) = INVALID_2 THEN FALSE
        ELSE IF from(m) \notin our_pieces \/ to(m) \in our_pieces THEN FALSE
        ELSE IF (to(m) \in enemy_pieces) # is_capture(m) THEN FALSE
        ELSE IF piece # PAWN /\ (is_double_pawn_push(m) \/ is_ep_capture(m)
                                 \/ is_promotion(m)) THEN FALSE
        ELSE IF piece # KING /\ is_castle(m) THEN FALSE
        ELSE TRUE

legal(b, m) ==
    IF ~legal_structure(b, m) THEN FALSE
    ELSE IF get_piece_at(b, from(m)) \in PieceTypes
    THEN legal_piece(b, get_piece_at(b, from(m)), m, get_pieces(b))
    ELSE FALSE

(***************************************************************************)
(* Board::make_move, Board::make_null_move, generate_hash, is_valid        *)
(***************************************************************************)
MakeMoveClocks_FullMoveEveryPly(b, move) ==
    [ b EXCEPT
        !.m_full_move_clock = @ + 1,
        !.m_half_move_clock =
            IF get_piece_at(b, from(move)) = PAWN \/ is_capture(move) THEN 0 ELSE @ + 1,
        !.m_enpassant_square = SQUARE_NULL ]

MakeMoveClocks_KeepEp(b, move) ==
    [ b EXCEPT
        !.m_full_move_clock = @ + b.m_turn,
        !.m_half_move_clock =
            IF get_piece_at(b, from(move)) = PAWN \/ is_capture(move) THEN 0 ELSE @ + 1 ]

\* Increment clocks; initial empty ep square.
MakeMoveClocks(b, move) ==
    [ b EXCEPT
        !.m_full_move_clock = @ + b.m_turn,
        !.m_half_move_clock =
            IF get_piece_at(b, from(move)) = PAWN \/ is_capture(move) THEN 0 ELSE @ + 1,
        !.m_enpassant_square = SQUARE_NULL ]

\* Update castling rights after this move: a king or a rook of the mover moves.
MakeMoveOwnRights(b, r, move) ==
    LET turn  == b.m_turn
        piece == get_piece_at(b, from(move))
    IN  IF piece = KING
        THEN set_castling(set_castling(r, FALSE, KINGSIDE, turn), FALSE, QUEENSIDE, turn)
        ELSE IF piece = ROOK
        THEN LET k == IF from(move) = (IF turn = WHITE THEN SQUARE_H1 ELSE SQUARE_H8)
                      THEN set_castling(r, FALSE, KINGSIDE, turn) ELSE r
             IN  IF from(move) = (IF turn = WHITE THEN SQUARE_A1 ELSE SQUARE_A8)
                 THEN set_castling(k, FALSE, QUEENSIDE, turn) ELSE k
        ELSE r

MakeMoveCapture_KeepRights(b, r, move) ==
    LET turn   == b.m_turn
        target == IF is_ep_capture(move) THEN to(move) - Up(turn) ELSE to(move)
    IN  pop_piece(r, get_piece_at(b, target), OtherTurn(turn), target)

\* Capture: remove the captured piece; a captured rook loses its castling right.
MakeMoveCapture(b, r, move) ==
    LET turn   == b.m_turn
        target == IF is_ep_capture(move) THEN to(move) - Up(turn) ELSE to(move)
        c0 == pop_piece(r, get_piece_at(b, target), OtherTurn(turn), target)
        c1 == IF to(move) = (IF turn = WHITE THEN SQUARE_H8 ELSE SQUARE_H1)
              THEN set_castling(c0, FALSE, KINGSIDE, OtherTurn(turn)) ELSE c0
    IN  IF to(move) = (IF turn = WHITE THEN SQUARE_A8 ELSE SQUARE_A1)
        THEN set_castling(c1, FALSE, QUEENSIDE, OtherTurn(turn)) ELSE c1

MakeMoveDoublePush_NoHash(b, r, move) ==
    [ r EXCEPT !.m_enpassant_square = to(move) - Up(b.m_turn) ]

\* Double pawn push: update the ep square.
MakeMoveDoublePush(b, r, move) ==
    [ r EXCEPT !.m_enpassant_square = to(move) - Up(b.m_turn),
               !.m_hash = Xor(@, { get_ep_file(file(to(move))) }) ]

MakeMoveCastle_RookStays(b, r, move) == r

\* Castle: move the rook to the new square.
MakeMoveCastle(b, r, move) ==
    LET iS == to(move) + (IF to(move) > from(move) THEN 1 ELSE -2)
        iE == to(move) + (IF to(move) > from(move) THEN -1 ELSE 1)
    IN  move_piece(r, ROOK, b.m_turn, iS, iE)

\* Set piece on target square.
MakeMovePlace(b, r, move) ==
    LET piece == get_piece_at(b, from(move))
    IN  IF is_promotion(move)
        THEN set_piece(pop_piece(r, piece, b.m_turn, from(move)),
                       promo_piece(move), b.m_turn, to(move))
        ELSE move_piece(r, piece, b.m_turn, from(move), to(move))

MakeMoveSwapTurns_NoEpReset(b, r) ==
    [ r EXCEPT !.m_turn = OtherTurn(b.m_turn),
               !.m_hash = Xor(@, { get_black_move }) ]

\* Swap turns; reset the previous en-passant hash.
MakeMoveSwapTurns(b, r) ==
    LET s == [ r EXCEPT !.m_turn = OtherTurn(b.m_turn),
                        !.m_hash = Xor(@, { get_black_move }) ]
    IN  IF b.m_enpassant_square # SQUARE_NULL
        THEN [ s EXCEPT !.m_hash = Xor(@, { get_ep_file(file(b.m_enpassant_square)) }) ]
        ELSE s

Board_make_move(b, move) ==
    LET r1 == MakeMoveClocks(b, move)
        r2 == MakeMoveOwnRights(b, r1, move)
        r3 == IF is_capture(move) THEN MakeMoveCapture(b, r2, move)
              ELSE IF is_double_pawn_push(move) THEN MakeMoveDoublePush(b, r2, move)
              ELSE IF is_castle(move) THEN MakeMoveCastle(b, r2, move)
              ELSE r2
        r4 == MakeMovePlace(b, r3, move)
    IN  update_checkers(MakeMoveSwapTurns(b, r4))

Board_make_null_move_KeepEp(b) ==
    [ b EXCEPT !.m_turn = OtherTurn(b.m_turn),
               !.m_hash = Xor(@, { get_black_move }) ]

Board_make_null_move_FreshRights(b) ==
    [ b EXCEPT !.m_enpassant_square = SQUARE_NULL,
               !.m_turn = OtherTurn(b.m_turn),
               !.m_castling_rights =
                    [ side \in CastleSides |-> [ turn \in Turns |-> TRUE ] ] ]

Board_make_null_move(b) ==
    LET r1 == [ b EXCEPT !.m_enpassant_square = SQUARE_NULL ]
        r2 == IF b.m_enpassant_square # SQUARE_NULL
              THEN [ r1 EXCEPT !.m_hash = Xor(@, { get_ep_file(file(b.m_enpassant_square)) }) ]
              ELSE r1
    IN  [ r2 EXCEPT !.m_turn = OtherTurn(b.m_turn),
                    !.m_hash = Xor(@, { get_black_move }) ]

generate_hash(b) ==
    UNION { { get_piece_turn_square(x[1], x[2], sq) : sq \in b.m_pieces[x[1]][x[2]] } :
            x \in PieceTypes \X Turns }
    \cup (IF b.m_turn = BLACK THEN { get_black_move } ELSE {})
    \cup (IF b.m_enpassant_square # SQUARE_NULL
          THEN { get_ep_file(file(b.m_enpassant_square)) } ELSE {})
    \cup { get_castle_side_turn(x[1], x[2]) :
            x \in { y \in CastleSides \X Turns : b.m_castling_rights[y[1]][y[2]] } }

\* The material and piece-square sum of one bitboard, as is_valid's inner loop.
RECURSIVE SumPieceSquare(_, _, _)
SumPieceSquare(bb, piece, turn) ==
    IF bb = {} THEN <<0, 0>>
    ELSE LET sq == bitscan_forward(bb)
         IN  MixedAdd(MixedMul(piece_square(piece, sq, turn), turn_to_color(turn)),
                      SumPieceSquare(bb \ { sq }, piece, turn))

PieceTurnList ==
    << <<PAWN, WHITE>>, <<PAWN, BLACK>>, <<KNIGHT, WHITE>>, <<KNIGHT, BLACK>>,
       <<BISHOP, WHITE>>, <<BISHOP, BLACK>>, <<ROOK, WHITE>>, <<ROOK, BLACK>>,
       <<QUEEN, WHITE>>, <<QUEEN, BLACK>>, <<KING, WHITE>>, <<KING, BLACK>> >>

RECURSIVE EvalFrom(_, _)
EvalFrom(b, i) ==
    IF i > Len(PieceTurnList) THEN [ eval |-> <<0, 0>>, count |-> 0 ]
    ELSE LET piece == PieceTurnList[i][1]
             turn  == PieceTurnList[i][2]
             bb    == b.m_pieces[piece][turn]
             rest  == EvalFrom(b, i + 1)
         IN  [ eval |-> MixedAdd(MixedAdd(MixedMul(piece_value[piece + 1],
                                                   Cardinality(bb) * turn_to_color(turn)),
                                          SumPieceSquare(bb, piece, turn)),
                                 rest.eval),
               count |-> Cardinality(bb) * PhasePieces[piece + 1] + rest.count ]

SideNotToMoveSafe(b) ==
    attackers(b, bitscan_forward(b.m_pieces[KING][OtherTurn(b.m_turn)]),
              get_pieces(b), b.m_turn) = {}

BitboardsDisjoint(b) ==
    \A x \in PieceTypes \X Turns : \A y \in PieceTypes \X Turns :
        x # y => b.m_pieces[x[1]][x[2]] \cap b.m_pieces[y[1]][y[2]] = {}

MailboxAgrees(b) ==
    LET occupancy == get_pieces(b)
    IN  \A sq \in Squares :
        IF b.m_board_pieces[sq] = NO_PIECE
        THEN sq \notin occupancy
        ELSE sq \in b.m_pieces[get_piece_at(b, sq)][get_turn(b.m_board_pieces[sq])]

HashConsistent(b) == b.m_hash = generate_hash(b)
PhaseConsistent(b) == U8(PhaseTotal - EvalFrom(b, 1).count) = b.m_phase
PsqConsistent(b) == EvalFrom(b, 1).eval = b.m_psq

is_valid(b) ==
    /\ SideNotToMoveSafe(b)
    /\ BitboardsDisjoint(b)
    /\ MailboxAgrees(b)
    /\ HashConsistent(b)
    /\ PhaseConsistent(b)
    /\ PsqConsistent(b)

(***************************************************************************)
(* Board::least_valuable and Board::see                                    *)
(***************************************************************************)
\* Integer division of C++: the quotient is truncated towards zero.
CDiv(a, d) == IF a >= 0 THEN a \div d ELSE - ((- a) \div d)

RECURSIVE LeastValuableFrom(_, _, _)
LeastValuableFrom(b, bb, piece) ==
    IF piece > KING THEN SQUARE_NULL
    ELSE LET piece_bb == (b.m_pieces[piece][WHITE] \cup b.m_pieces[piece][BLACK]) \cap bb
         IN  IF piece_bb # {} THEN bitscan_forward(piece_bb)
             ELSE LeastValuableFrom(b, bb, piece + 1)

least_valuable(b, bb) == LeastValuableFrom(b, bb, PAWN)

see_piece_score == << 10, 30, 30, 50, 90, 1000, 0, 0 >>

SeeSeedGain_NoEp(b, move, threshold) ==
    see_piece_score[get_piece_at(b, to(move)) + 1] - CDiv(threshold, 10)

\* The initial capture: the value of the victim minus threshold / 10.
SeeSeedGain(b, move, threshold) ==
    see_piece_score[(IF is_ep_capture(move) THEN PAWN ELSE get_piece_at(b, to(move))) + 1]
    - CDiv(threshold, 10)

\* The loop over the attackers of the target, sides alternating.
RECURSIVE SeeLoop(_, _, _, _, _, _, _)
SeeLoop(b, target, gain, last_attacker, occupancy, side_to_move, color) ==
    LET attacks_target == attackers(b, target, occupancy, side_to_move) \cap occupancy
    IN  IF attacks_target = {} THEN 10 * gain
        ELSE IF color * gain > 0 THEN 10 * gain
        ELSE LET attacker == least_valuable(b, attacks_target)
             IN  SeeLoop(b, target, gain + color * see_piece_score[last_attacker + 1],
                         get_piece_at(b, attacker), occupancy \ { attacker },
                         OtherTurn(side_to_move), - color)

see(b, move, threshold) ==
    SeeLoop(b, to(move), SeeSeedGain(b, move, threshold), get_piece_at(b, from(move)),
            get_pieces(b) \ { from(move) }, OtherTurn(b.m_turn), -1)

(***************************************************************************)
(* Position (position.cpp): the stack of Boards along the line             *)
(***************************************************************************)
Position(fen) ==
    [ m_boards |-> << BoardFromFen(fen) >>,
      m_stack |-> 0,
      m_pos |-> 0,
      m_extensions |-> 0,
      m_moves |-> << >>,
      m_reduced |-> FALSE ]

board(p) == p.m_boards[Len(p.m_boards)]
in_check(p) == board(p).m_checkers # {}

Position_make_move_AlwaysExtends(p, move, extension) ==
    [ p EXCEPT
        !.m_stack = @ + 1,
        !.m_pos = @ + 1,
        !.m_boards = Append(@, Board_make_move(board(p), move)),
        !.m_moves = Append(@, [ move |-> move, extended |-> extension ]),
        !.m_extensions = @ + 1 ]

Position_make_move(p, move, extension) ==
    [ p EXCEPT
        !.m_stack = @ + 1,
        !.m_pos = @ + 1,
        !.m_boards = Append(@, Board_make_move(board(p), move)),
        !.m_moves = Append(@, [ move |-> move, extended |-> extension ]),
        !.m_extensions = IF extension THEN @ + 1 ELSE @ ]

Position_unmake_move_KeepExtensions(p) ==
    [ p EXCEPT
        !.m_boards = SubSeq(@, 1, Len(@) - 1),
        !.m_stack = @ - 1,
        !.m_pos = @ - 1,
        !.m_moves = SubSeq(@, 1, Len(@) - 1) ]

Position_unmake_move(p) ==
    [ p EXCEPT
        !.m_boards = SubSeq(@, 1, Len(@) - 1),
        !.m_stack = @ - 1,
        !.m_pos = @ - 1,
        !.m_extensions = IF p.m_moves[Len(p.m_moves)].extended THEN @ - 1 ELSE @,
        !.m_moves = SubSeq(@, 1, Len(@) - 1) ]

Position_make_null_move(p) ==
    [ p EXCEPT
        !.m_stack = @ + 1,
        !.m_pos = @ + 1,
        !.m_boards = Append(@, Board_make_null_move(board(p))),
        !.m_moves = Append(@, [ move |-> MOVE_NULL, extended |-> FALSE ]) ]

Position_unmake_null_move(p) ==
    [ p EXCEPT
        !.m_boards = SubSeq(@, 1, Len(@) - 1),
        !.m_stack = @ - 1,
        !.m_pos = @ - 1,
        !.m_moves = SubSeq(@, 1, Len(@) - 1) ]

set_init_ply_DropHistory(p) ==
    [ p EXCEPT !.m_pos = 0, !.m_stack = 0,
               !.m_boards = << board(p) >>, !.m_moves = << >>, !.m_extensions = 0 ]

set_init_ply(p) == [ p EXCEPT !.m_pos = 0, !.m_stack = 0 ]

\* Position::is_draw: the two loops, pos2 inside pos1.
RECURSIVE DrawLoop2(_, _, _)
DrawLoop2(p, pos2, min_pos) ==
    IF pos2 >= min_pos
    THEN IF board(p).m_hash = p.m_boards[pos2 + 1].m_hash THEN TRUE
         ELSE DrawLoop2(p, pos2 - 2, min_pos)
    ELSE FALSE

RECURSIVE DrawLoop1(_, _, _, _)
DrawLoop1(p, unique, pos1, min_pos) ==
    IF pos1 >= min_pos
    THEN IF board(p).m_hash = p.m_boards[pos1 + 1].m_hash
              /\ (unique \/ DrawLoop2(p, pos1 - 4, min_pos))
         THEN TRUE
         ELSE DrawLoop1(p, unique, pos1 - 2, min_pos)
    ELSE FALSE

is_draw_FiftyAt101(p, unique) ==
    IF board(p).m_half_move_clock >= 101 THEN TRUE
    ELSE LET cur_pos == Len(p.m_boards) - 1
             n_moves == Min(cur_pos + 1, board(p).m_half_move_clock)
             min_pos == cur_pos - n_moves + 1
         IN  IF n_moves >= 8 THEN DrawLoop1(p, unique, cur_pos - 4, min_pos)
             ELSE FALSE

is_draw(p, unique) ==
    IF board(p).m_half_move_clock >= 100 THEN TRUE
    ELSE LET cur_pos == Len(p.m_boards) - 1
             n_moves == Min(cur_pos + 1, board(p).m_half_move_clock)
             min_pos == cur_pos - n_moves + 1
         IN  IF n_moves >= 8 THEN DrawLoop1(p, unique, cur_pos - 4, min_pos)
             ELSE FALSE

(***************************************************************************)
(* Board::to_fen and Board::operator==                                     *)
(***************************************************************************)
DigitChar == << "0", "1", "2", "3", "4", "5", "6", "7", "8", "9" >>
FileChar == << "a", "b", "c", "d", "e", "f", "g", "h" >>
toupper(c) ==
    CASE c = "p" -> "P" [] c = "n" -> "N" [] c = "b" -> "B"
      [] c = "r" -> "R" [] c = "q" -> "Q" [] c = "k" -> "K" [] OTHER -> c

fen_piece_char(pc) ==
    LET piece == get_piece_type(pc)
        ch == CASE piece = PAWN -> "p" [] piece = KNIGHT -> "n" [] piece = BISHOP -> "b"
                [] piece = ROOK -> "r" [] piece = QUEEN -> "q" [] piece = KING -> "k"
                [] OTHER -> "x"
    IN  IF get_turn(pc) = WHITE THEN toupper(ch) ELSE ch

fen_castle_side_char(side, turn) ==
    LET ch == CASE side = KINGSIDE -> "k" [] side = QUEENSIDE -> "q" [] OTHER -> "x"
    IN  IF turn = WHITE THEN toupper(ch) ELSE ch

\* operator<< of a non-negative int: its decimal digits.
RECURSIVE WriteNumber(_)
WriteNumber(n) ==
    IF n < 10 THEN << DigitChar[n + 1] >>
    ELSE WriteNumber(n \div 10) \o << DigitChar[(n % 10) + 1] >>

get_square(sq) == << FileChar[file(sq) + 1], DigitChar[rank(sq) + 2] >>

\* The inner loop of to_fen over the files of one rank: [out, space].
RECURSIVE WriteRank(_, _, _, _)
WriteRank(b, r, f, st) ==
    IF f >= 8 THEN st
    ELSE LET pc == b.m_board_pieces[make_square(r, f)]
         IN  WriteRank(b, r, f + 1,
                IF pc = NO_PIECE
                THEN [ st EXCEPT !.space = @ + 1 ]
                ELSE [ out |-> st.out
                               \o (IF st.space # 0 THEN WriteNumber(st.space) ELSE << >>)
                               \o << fen_piece_char(pc) >>,
                       space |-> 0 ])

RECURSIVE WritePlacement(_, _)
WritePlacement(b, r) ==
    IF r < 0 THEN << >>
    ELSE LET st == WriteRank(b, r, 0, [ out |-> << >>, space |-> 0 ])
         IN  st.out
             \o (IF st.space # 0 THEN WriteNumber(st.space) ELSE << >>)
             \o << IF r > 0 THEN "/" ELSE " " >>
             \o WritePlacement(b, r - 1)

WriteCastling_WhiteOnly(b) ==
    LET right(side, turn) ==
            IF b.m_castling_rights[side][turn]
            THEN << fen_castle_side_char(side, turn) >> ELSE << >>
        found == \E side \in { KINGSIDE, QUEENSIDE } : b.m_castling_rights[side][WHITE]
    IN  right(KINGSIDE, WHITE) \o right(QUEENSIDE, WHITE)
        \o (IF found THEN << " " >> ELSE << "-", " " >>)

WriteCastling(b) ==
    LET right(side, turn) ==
            IF b.m_castling_rights[side][turn]
            THEN << fen_castle_side_char(side, turn) >> ELSE << >>
        found == \E side \in { KINGSIDE, QUEENSIDE } : \E turn \in Turns :
                    b.m_castling_rights[side][turn]
    IN  right(KINGSIDE, WHITE) \o right(QUEENSIDE, WHITE)
        \o right(KINGSIDE, BLACK) \o right(QUEENSIDE, BLACK)
        \o (IF found THEN << " " >> ELSE << "-", " " >>)

to_fen(b) ==
    WritePlacement(b, 7)
    \o (IF b.m_turn = WHITE THEN << "w", " " >> ELSE << "b", " " >>)
    \o WriteCastling(b)
    \o (IF b.m_enpassant_square = SQUARE_NULL THEN << "-" >>
        ELSE get_square(b.m_enpassant_square))
    \o << " " >>
    \o WriteNumber(b.m_half_move_clock) \o << " " >> \o WriteNumber(b.m_full_move_clock)

BoardEquals(b, other) ==
    /\ b.m_hash = other.m_hash
    /\ b.m_turn = other.m_turn
    /\ b.m_enpassant_square = other.m_enpassant_square
    /\ \A side \in { KINGSIDE, QUEENSIDE } : \A turn \in Turns :
        b.m_castling_rights[side][turn] = other.m_castling_rights[side][turn]
    /\ \A piece \in PieceTypes : \A turn \in Turns :
        b.m_pieces[piece][turn] = other.m_pieces[piece][turn]

(***************************************************************************)
(* Histories (move_order.hpp / move_order.cpp)                             *)
(* A table is the function of its written entries; an entry never written  *)
(* since clear() reads as 0 (MOVE_NULL).                                   *)
(***************************************************************************)
NUM_KILLERS == 3
At(table, key) == IF key \in DOMAIN table THEN table[key] ELSE 0
Put(table, key, value) ==
    [ k \in DOMAIN table \cup { key } |-> IF k = key THEN value ELSE table[k] ]

Histories_clear ==
    [ m_killers |-> << >>, m_butterfly |-> << >>,
      m_piece_type |-> << >>, m_countermoves |-> << >> ]

get_killer(h, index, ply) == At(h.m_killers, << index, ply >>)
is_killer_FirstSlot(h, move, ply) == get_killer(h, 0, ply) = move

is_killer(h, move, ply) == \E i \in 0 .. (NUM_KILLERS - 1) : get_killer(h, i, ply) = move
butterfly_score(h, move, turn) == At(h.m_butterfly, << turn, from(move), to(move) >>)
piece_type_score(h, move, piece) == At(h.m_piece_type, << piece, to(move) >>)
countermove(h, move) == At(h.m_countermoves, << from(move), to(move) >>)

add_bonus(h, move, turn, piece, bonus) ==
    [ h EXCEPT
        !.m_butterfly = Put(@, << turn, from(move), to(move) >>,
                            butterfly_score(h, move, turn) + bonus),
        !.m_piece_type = Put(@, << piece, to(move) >>,
                             piece_type_score(h, move, piece) + bonus) ]

\* Right-shift killers of ply from slot i down to slot 1.
RECURSIVE ShiftKillers(_, _, _)
ShiftKillers(killers, ply, i) ==
    IF i > 0
    THEN ShiftKillers(Put(killers, << i, ply >>, At(killers, << i - 1, ply >>)), ply, i - 1)
    ELSE killers

fail_high_AlwaysShift(h, move, prev_move, turn, depth, ply, piece) ==
    LET h1 == [ add_bonus(h, move, turn, piece, depth * depth) EXCEPT
                !.m_countermoves = Put(@, << from(prev_move), to(prev_move) >>, move) ]
    IN  [ h1 EXCEPT !.m_killers =
            Put(ShiftKillers(@, ply, NUM_KILLERS - 1), << 0, ply >>, move) ]

fail_high(h, move, prev_move, turn, depth, ply, piece) ==
    LET h1 == [ add_bonus(h, move, turn, piece, depth * depth) EXCEPT
                !.m_countermoves = Put(@, << from(prev_move), to(prev_move) >>, move) ]
    IN  IF is_killer(h1, move, ply) THEN h1
        ELSE [ h1 EXCEPT !.m_killers =
                Put(ShiftKillers(@, ply, NUM_KILLERS - 1), << 0, ply >>, move) ]

(***************************************************************************)
(* MoveOrder (move_order.hpp / move_order.cpp)                             *)
(***************************************************************************)
HASH == 0
CAPTURES_INIT == 1
CAPTURES == 2
CAPTURES_END == 3
COUNTERMOVES == 4
KILLERS == 5
QUIET_INIT == 6
QUIET == 7
NO_MOVES == 8

MoveOrder(ply, depth, hash_move, prev_move, quiescence) ==
    [ m_ply |-> ply, m_depth |-> depth, m_hash_move |-> hash_move,
      m_prev_move |-> prev_move, m_quiescence |-> quiescence,
      m_moves |-> << >>, m_stage |-> HASH,
      m_countermove |-> MOVE_NULL, m_killer |-> MOVE_NULL, m_curr |-> 1 ]

capture_piece_score == << 10, 30, 31, 50, 90, 1000 >>
capture_score(p, move) ==
    LET fromPt == get_piece_at(board(p), from(move))
        toPt   == IF is_ep_capture(move) THEN PAWN ELSE get_piece_at(board(p), to(move))
    IN  capture_piece_score[toPt + 1] - capture_piece_score[fromPt + 1]

quiet_score(p, h, move) ==
    butterfly_score(h, move, board(p).m_turn)
    + piece_type_score(h, move, get_piece_at(board(p), from(move)))

move_score(p, h, is_captures, move) ==
    IF is_captures THEN capture_score(p, move) ELSE quiet_score(p, h, move)

\* threshold_moves: the moves scoring above the threshold are swapped to the
\* front; the result is [list, pos] with pos the length of that front part.
RECURSIVE ThresholdLoop(_, _, _, _, _, _, _)
ThresholdLoop(p, h, is_captures, list, threshold, ppos, i) ==
    IF i > Len(list) THEN [ list |-> list, pos |-> ppos - 1 ]
    ELSE IF move_score(p, h, is_captures, list[i]) > threshold
    THEN ThresholdLoop(p, h, is_captures,
                       [ list EXCEPT ![ppos] = list[i], ![i] = list[ppos] ],
                       threshold, ppos + 1, i + 1)
    ELSE ThresholdLoop(p, h, is_captures, list, threshold, ppos, i + 1)

threshold_moves(p, h, is_captures, list, threshold) ==
    ThresholdLoop(p, h, is_captures, list, threshold, 1, 1)

\* sort_moves: std::sort of the first n moves, in place, by decreasing score
\* (an insertion sort: the order of equal scores is the list's).
RECURSIVE InsertSorted(_, _, _, _, _)
InsertSorted(p, h, is_captures, sorted, move) ==
    IF sorted = << >> THEN << move >>
    ELSE IF move_score(p, h, is_captures, move) > move_score(p, h, is_captures, Head(sorted))
    THEN << move >> \o sorted
    ELSE << Head(sorted) >> \o InsertSorted(p, h, is_captures, Tail(sorted), move)

RECURSIVE SortPrefix(_, _, _, _, _)
SortPrefix(p, h, is_captures, list, n) ==
    IF n = 0 THEN << >>
    ELSE InsertSorted(p, h, is_captures, SortPrefix(p, h, is_captures, list, n - 1), list[n])

sort_moves_Unsorted(p, h, is_captures, list, n) == list

sort_moves_DropTail(p, h, is_captures, list, n) ==
    SortPrefix(p, h, is_captures, list, n)

sort_moves(p, h, is_captures, list, n) ==
    SortPrefix(p, h, is_captures, list, n) \o SubSeq(list, n + 1, Len(list))

\* `while (next(move)) if (move not skipped) return move;`: the index of the
\* first move at or after m_curr that is not skipped, or 0.
NextUnskipped_NoAdvance(list, curr, skip) ==
    IF list = << >> THEN 0 ELSE 1

RECURSIVE NextUnskipped(_, _, _)
NextUnskipped(list, curr, skip) ==
    IF curr > Len(list) THEN 0
    ELSE IF list[curr] \notin skip THEN curr
    ELSE NextUnskipped(list, curr + 1, skip)

\* `for (i...) candidate = get_killer(i, ply) ...`: the first killer slot at or
\* after i that is accepted, or NUM_KILLERS.
RECURSIVE FirstKiller_NoLegal(_, _, _, _)
FirstKiller_NoLegal(mo, p, h, i) ==
    IF i >= NUM_KILLERS THEN NUM_KILLERS
    ELSE LET candidate == get_killer(h, i, mo.m_ply)
         IN  IF /\ candidate # mo.m_hash_move
                /\ candidate # mo.m_countermove
                /\ candidate # MOVE_NULL
             THEN i
             ELSE FirstKiller_NoLegal(mo, p, h, i + 1)

RECURSIVE FirstKiller(_, _, _, _)
FirstKiller(mo, p, h, i) ==
    IF i >= NUM_KILLERS THEN NUM_KILLERS
    ELSE LET candidate == get_killer(h, i, mo.m_ply)
         IN  IF /\ candidate # mo.m_hash_move
                /\ candidate # mo.m_countermove
                /\ legal(board(p), candidate)
             THEN i
             ELSE FirstKiller(mo, p, h, i + 1)

\* operator++ of MoveStage.
StageNext_Restart(stage) == IF stage = QUIET THEN CAPTURES_INIT ELSE stage + 1

StageNext(stage) == stage + 1

\* MoveOrder::hash_move: whether the hash move is to be returned.
MoveOrder_hash_move_Unchecked(mo, p) == mo.m_hash_move # MOVE_NULL

MoveOrder_hash_move_Always(mo, p) == TRUE

MoveOrder_hash_move(mo, p) == legal(board(p), mo.m_hash_move)

\* CAPTURES_END: stop providing moves in non-check quiescence.
QuiescenceStop_IgnoreCheck(mo, p) == mo.m_quiescence

QuiescenceStop(mo, p) == mo.m_quiescence /\ ~in_check(p)

\* MoveOrder::next_move: [mo, move, at], the cursor after the call, the move
\* returned and the stage that returned it.
RECURSIVE next_move(_, _, _)
next_move(mo, p, h) ==
    LET adv == [ mo EXCEPT !.m_stage = StageNext(@) ]
    IN  CASE mo.m_stage = HASH ->
                IF MoveOrder_hash_move(mo, p)
                THEN [ mo |-> adv, move |-> mo.m_hash_move, at |-> mo.m_stage ]
                ELSE next_move(adv, p, h)
          [] mo.m_stage = CAPTURES_INIT ->
                LET list == generate_moves(board(p), "CAPTURES")
                IN  next_move([ adv EXCEPT
                        !.m_moves = sort_moves(p, h, TRUE, list, Len(list)),
                        !.m_curr = 1 ], p, h)
          [] mo.m_stage = CAPTURES ->
                LET i == NextUnskipped(mo.m_moves, mo.m_curr, { mo.m_hash_move })
                IN  IF i # 0
                    THEN [ mo |-> [ mo EXCEPT !.m_curr = i + 1 ], move |-> mo.m_moves[i],
                           at |-> mo.m_stage ]
                    ELSE next_move([ adv EXCEPT !.m_curr = Len(mo.m_moves) + 1 ], p, h)
          [] mo.m_stage = CAPTURES_END ->
                IF QuiescenceStop(mo, p)
                THEN [ mo |-> mo, move |-> MOVE_NULL, at |-> mo.m_stage ]
                ELSE next_move(adv, p, h)
          [] mo.m_stage = COUNTERMOVES ->
                LET candidate == countermove(h, mo.m_prev_move)
                IN  IF candidate # mo.m_hash_move /\ legal(board(p), candidate)
                    THEN [ mo |-> [ adv EXCEPT !.m_countermove = candidate ],
                           move |-> candidate, at |-> mo.m_stage ]
                    ELSE next_move(adv, p, h)
          [] mo.m_stage = KILLERS ->
                LET i == FirstKiller([ mo EXCEPT !.m_killer = MOVE_NULL ], p, h, 0)
                IN  IF i < NUM_KILLERS
                    THEN [ mo |-> [ adv EXCEPT !.m_killer = get_killer(h, i, mo.m_ply) ],
                           move |-> get_killer(h, i, mo.m_ply), at |-> mo.m_stage ]
                    ELSE next_move([ adv EXCEPT !.m_killer = MOVE_NULL ], p, h)
          [] mo.m_stage = QUIET_INIT ->
                LET list == generate_moves(board(p), "QUIETS")
                    part == threshold_moves(p, h, FALSE, list, -3000 * mo.m_depth)
                IN  next_move([ adv EXCEPT
                        !.m_moves = sort_moves(p, h, FALSE, part.list, part.pos),
                        !.m_curr = 1 ], p, h)
          [] mo.m_stage = QUIET ->
                LET i == NextUnskipped(mo.m_moves, mo.m_curr,
                                       { mo.m_hash_move, mo.m_killer, mo.m_countermove })
                IN  IF i # 0
                    THEN [ mo |-> [ mo EXCEPT !.m_curr = i + 1 ], move |-> mo.m_moves[i],
                           at |-> mo.m_stage ]
                    ELSE next_move([ adv EXCEPT !.m_curr = Len(mo.m_moves) + 1 ], p, h)
          [] OTHER -> [ mo |-> mo, move |-> MOVE_NULL, at |-> mo.m_stage ]

(***************************************************************************)
(* The positions the model starts from                                     *)
(***************************************************************************)
\* rnbqkbnr/pppppppp/8/8/8/8/PPPPPPPP/RNBQKBNR w KQkq - 0 1
FenStart ==
    << "r", "n", "b", "q", "k", "b", "n", "r", "/", "p", "p", "p", "p", "p",
    "p", "p", "p", "/", "8", "/", "8", "/", "8", "/", "8", "/", "P", "P",
    "P", "P", "P", "P", "P", "P", "/", "R", "N", "B", "Q", "K", "B", "N",
    "R", " ", "w", " ", "K", "Q", "k", "q", " ", "-", " ", "0", " ", "1" >>
\* r3k2r/8/8/8/8/8/8/R3K2R w KQkq - 0 1
FenCastle ==
    << "r", "3", "k", "2", "r", "/", "8", "/", "8", "/", "8", "/", "8", "/",
    "8", "/", "8", "/", "R", "3", "K", "2", "R", " ", "w", " ", "K", "Q",
    "k", "q", " ", "-", " ", "0", " ", "1" >>
\* 4k2r/7p/8/8/8/8/7P/4K2R w Kk - 0 1
FenCastleK ==
    << "4", "k", "2", "r", "/", "7", "p", "/", "8", "/", "8", "/", "8", "/",
    "8", "/", "7", "P", "/", "4", "K", "2", "R", " ", "w", " ", "K", "k",
    " ", "-", " ", "0", " ", "1" >>
\* r3k3/p7/8/8/8/8/P7/R3K3 b Qq - 0 1
FenCastleQ ==
    << "r", "3", "k", "3", "/", "p", "7", "/", "8", "/", "8", "/", "8", "/",
    "8", "/", "P", "7", "/", "R", "3", "K", "3", " ", "b", " ", "Q", "q",
    " ", "-", " ", "0", " ", "1" >>
\* 4k3/3p4/8/4P3/8/8/8/4K3 b - - 0 1
FenEpPush ==
    << "4", "k", "3", "/", "3", "p", "4", "/", "8", "/", "4", "P", "3", "/",
    "8", "/", "8", "/", "8", "/", "4", "K", "3", " ", "b", " ", "-", " ",
    "-", " ", "0", " ", "1" >>
\* 4k3/8/8/3pP3/8/8/8/4K3 w - d6 0 2
FenEpSet ==
    << "4", "k", "3", "/", "8", "/", "8", "/", "3", "p", "P", "3", "/", "8",
    "/", "8", "/", "8", "/", "4", "K", "3", " ", "w", " ", "-", " ", "d",
    "6", " ", "0", " ", "2" >>
\* r3k3/1P6/8/8/8/8/8/4K3 w q - 0 1
FenPromo ==
    << "r", "3", "k", "3", "/", "1", "P", "6", "/", "8", "/", "8", "/", "8",
    "/", "8", "/", "8", "/", "4", "K", "3", " ", "w", " ", "q", " ", "-",
    " ", "0", " ", "1" >>
\* 8/8/8/K2pP2r/8/8/8/4k3 w - d6 0 1
FenEpPin ==
    << "8", "/", "8", "/", "8", "/", "K", "2", "p", "P", "2", "r", "/", "8",
    "/", "8", "/", "8", "/", "4", "k", "3", " ", "w", " ", "-", " ", "d",
    "6", " ", "0", " ", "1" >>
\* 4k3/8/8/8/8/8/4r3/R3K3 w Q - 0 1
FenCheck ==
    << "4", "k", "3", "/", "8", "/", "8", "/", "8", "/", "8", "/", "8", "/",
    "4", "r", "3", "/", "R", "3", "K", "3", " ", "w", " ", "Q", " ", "-",
    " ", "0", " ", "1" >>
\* 4k3/4r3/8/3p4/8/4N3/8/4K3 w - - 0 1
FenPin ==
    << "4", "k", "3", "/", "4", "r", "3", "/", "8", "/", "3", "p", "4", "/",
    "8", "/", "4", "N", "3", "/", "8", "/", "4", "K", "3", " ", "w", " ",
    "-", " ", "-", " ", "0", " ", "1" >>
\* 4k3/8/8/8/8/2b5/3Q4/4K3 w - - 0 1
FenQueenPin ==
    << "4", "k", "3", "/", "8", "/", "8", "/", "8", "/", "8", "/", "2", "b",
    "5", "/", "3", "Q", "4", "/", "4", "K", "3", " ", "w", " ", "-", " ",
    "-", " ", "0", " ", "1" >>
\* rnbqkbnr/pppppppp/8/8/8/8/PPPPPPPP/RNBQKBNR w KQkq - 92 1
FenStart92 ==
    << "r", "n", "b", "q", "k", "b", "n", "r", "/", "p", "p", "p", "p", "p",
    "p", "p", "p", "/", "8", "/", "8", "/", "8", "/", "8", "/", "P", "P",
    "P", "P", "P", "P", "P", "P", "/", "R", "N", "B", "Q", "K", "B", "N",
    "R", " ", "w", " ", "K", "Q", "k", "q", " ", "-", " ", "9", "2", " ",
    "1" >>
\* 4k3/8/8/3n4/3N4/8/8/4K3 w - - 0 1
FenKnights ==
    << "4", "k", "3", "/", "8", "/", "8", "/", "3", "n", "4", "/", "3", "N",
    "4", "/", "8", "/", "8", "/", "4", "K", "3", " ", "w", " ", "-", " ",
    "-", " ", "0", " ", "1" >>
\* 4k3/8/8/8/8/8/p7/1N2K3 b - - 0 1
FenBlackPromo ==
    << "4", "k", "3", "/", "8", "/", "8", "/", "8", "/", "8", "/", "8", "/",
    "p", "7", "/", "1", "N", "2", "K", "3", " ", "b", " ", "-", " ", "-",
    " ", "0", " ", "1" >>
\* 4k3/8/8/8/8/8/8/2B1K3 w - - 0 1
FenBishop ==
    << "4", "k", "3", "/", "8", "/", "8", "/", "8", "/", "8", "/", "8", "/",
    "8", "/", "2", "B", "1", "K", "3", " ", "w", " ", "-", " ", "-", " ",
    "0", " ", "1" >>
\* 4k3/8/8/8/8/8/8/4K3 w - - 99 60
FenKings ==
    << "4", "k", "3", "/", "8", "/", "8", "/", "8", "/", "8", "/", "8", "/",
    "8", "/", "4", "K", "3", " ", "w", " ", "-", " ", "-", " ", "9", "9",
    " ", "6", "0" >>

\* 4k3/8/2n5/4p3/8/8/4Q3/4K3 w - - 0 1
FenSee ==
    << "4", "k", "3", "/", "8", "/", "2", "n", "5", "/", "4", "p", "3", "/", "8",
    "/", "8", "/", "4", "Q", "3", "/", "4", "K", "3", " ", "w", " ", "-", " ",
    "-", " ", "0", " ", "1" >>
\* 8/4k3/8/3pP3/8/8/8/4K3 w - d6 0 2
FenEpKing ==
    << "8", "/", "4", "k", "3", "/", "8", "/", "3", "p", "P", "3", "/", "8", "/",
    "8", "/", "8", "/", "4", "K", "3", " ", "w", " ", "-", " ", "d", "6", " ",
    "0", " ", "2" >>
\* 4k3/8/8/3n1q2/4P3/8/8/4K3 w - - 0 1
FenTwoCaptures ==
    << "4", "k", "3", "/", "8", "/", "8", "/", "3", "n", "1", "q", "2", "/", "4",
    "P", "3", "/", "8", "/", "8", "/", "4", "K", "3", " ", "w", " ", "-", " ",
    "-", " ", "0", " ", "1" >>

\* Bounds of the model
MaxPly == 2
MaxProbePly == 1
MaxDrawPly == 8
MaxFailHigh == 2
MaxExtraCalls == 1
MaxCalls == 24
MaxHistCalls == 5
MaxSeePly == 2
MaxBonus == 2

(***************************************************************************)
(* State: one Position, and the record of the last operation on it         *)
(***************************************************************************)
VARIABLES
    pos,        \* the Position
    last,       \* [op, snap, ext]: the last operation, the Position before the
                \* last make_move / make_null_move, and its extension flag
    hist,       \* the Histories
    hcalls,     \* the number of Histories updates since clear()
    hlast,      \* [op, snap, move, ply, nonnull]: the last Histories update,
                \* the Histories before it, the move and ply it was given, and
                \* whether every fail_high() so far was given a non-null move
    mo,         \* the MoveOrder cursor on pos, NoMoveOrder before its construction
    ret         \* the returns of next_move() so far: [move, at]

vars == << pos, last, hist, hcalls, hlast, mo, ret >>
orderVars == << hist, hcalls, hlast, mo, ret >>

NoMoveOrder == [ m_stage |-> -1 ]
Constructed == mo.m_stage >= HASH
InitOrderVars ==
    /\ hist = Histories_clear
    /\ hcalls = 0
    /\ hlast = [ op |-> "clear", snap |-> Histories_clear, move |-> MOVE_NULL, ply |-> 0,
                 nonnull |-> TRUE ]
    /\ mo = NoMoveOrder
    /\ ret = << >>

BoardFens ==
    { FenCastleK, FenCastleQ, FenEpPush, FenEpSet, FenPromo, FenEpPin, FenCheck,
      FenKings }

Init ==
    /\ \E fen \in BoardFens : pos = Position(fen)
    /\ last = [ op |-> "Position", snap |-> pos, ext |-> FALSE ]
    /\ InitOrderVars

LegalMoves(b) == { m \in PseudoLegal(b) : KingSafeAfter(b, m) }
Lowest(S) == IF S = {} THEN {} ELSE { CHOOSE m \in S : \A n \in S : m <= n }
Highest(S) == IF S = {} THEN {} ELSE { CHOOSE m \in S : \A n \in S : m >= n }
TopMove(p) == p.m_moves[Len(p.m_moves)].move

MakeMoveAct ==
    /\ Len(pos.m_boards) <= MaxPly
    /\ \E m \in LegalMoves(board(pos)) : \E extension \in BOOLEAN :
        /\ pos' = Position_make_move(pos, m, extension)
        /\ last' = [ op |-> "make_move", snap |-> pos, ext |-> extension ]
    /\ UNCHANGED orderVars

UnmakeMoveAct ==
    /\ Len(pos.m_moves) > 0
    /\ TopMove(pos) # MOVE_NULL
    /\ pos' = Position_unmake_move(pos)
    /\ last' = IF last.op = "make_move"
               THEN [ last EXCEPT !.op = "make_unmake" ]
               ELSE [ op |-> "unmake_move", snap |-> pos', ext |-> FALSE ]
    /\ UNCHANGED orderVars

\* A null move is made only when the side to move is not in check.
MakeNullMoveAct ==
    /\ Len(pos.m_boards) <= MaxPly
    /\ ~in_check(pos)
    /\ pos' = Position_make_null_move(pos)
    /\ last' = [ op |-> "make_null_move", snap |-> pos, ext |-> FALSE ]
    /\ UNCHANGED orderVars

UnmakeNullMoveAct ==
    /\ Len(pos.m_moves) > 0
    /\ TopMove(pos) = MOVE_NULL
    /\ pos' = Position_unmake_null_move(pos)
    /\ last' = IF last.op = "make_null_move"
               THEN [ last EXCEPT !.op = "make_unmake_null" ]
               ELSE [ op |-> "unmake_null_move", snap |-> pos', ext |-> FALSE ]
    /\ UNCHANGED orderVars

Next ==
    \/ MakeMoveAct
    \/ UnmakeMoveAct
    \/ MakeNullMoveAct
    \/ UnmakeNullMoveAct

Spec == Init /\ [][Next]_vars

(***************************************************************************)
(* SpecStack: the same four operations with set_init_ply() between them    *)
(***************************************************************************)
StackFens == { FenKings, FenEpSet }

InitStack ==
    /\ \E fen \in StackFens : pos = Position(fen)
    /\ last = [ op |-> "Position", snap |-> pos, ext |-> FALSE ]
    /\ InitOrderVars

SetInitPlyAct ==
    /\ pos.m_pos # 0
    /\ pos' = set_init_ply(pos)
    /\ last' = [ op |-> "set_init_ply", snap |-> pos, ext |-> FALSE ]
    /\ UNCHANGED orderVars

NextStack ==
    \/ MakeMoveAct
    \/ UnmakeMoveAct
    \/ MakeNullMoveAct
    \/ UnmakeNullMoveAct
    \/ SetInitPlyAct

SpecStack == InitStack /\ [][NextStack]_vars

(***************************************************************************)
(* SpecLegal: the boards on which Board::legal is probed with arbitrary    *)
(* move values                                                             *)
(***************************************************************************)
LegalFens ==
    BoardFens \cup { FenPin, FenQueenPin, FenKnights, FenBlackPromo, FenBishop }

InitLegal ==
    /\ \E fen \in LegalFens : pos = Position(fen)
    /\ last = [ op |-> "Position", snap |-> pos, ext |-> FALSE ]
    /\ InitOrderVars

ProbeMakeMoveAct ==
    /\ Len(pos.m_boards) <= MaxProbePly
    /\ \E m \in LegalMoves(board(pos)) :
        /\ pos' = Position_make_move(pos, m, FALSE)
        /\ last' = [ op |-> "make_move", snap |-> pos, ext |-> FALSE ]
    /\ UNCHANGED orderVars

NextLegal == ProbeMakeMoveAct

SpecLegal == InitLegal /\ [][NextLegal]_vars

\* The move values Board::legal is probed with: every target square and every
\* move type, from every square of the side to move, the lowest square of the
\* other side, the lowest empty square and the ep square.
ProbeFrom(b) ==
    get_pieces_of(b, b.m_turn)
    \cup Lowest(get_pieces_of(b, OtherTurn(b.m_turn)))
    \cup Lowest(Squares \ get_pieces(b))
    \cup (IF b.m_enpassant_square # SQUARE_NULL THEN { b.m_enpassant_square } ELSE {})
ProbeMoves(b) ==
    { MakeMove(x[1], x[2], x[3]) : x \in ProbeFrom(b) \X Squares \X (0 .. 15) }

(***************************************************************************)
(* SpecDraw: games of knight moves out and back from the initial position, *)
(* with the half-move clock at 0 and at 92                                 *)
(***************************************************************************)
DrawFens == { FenStart, FenStart92 }

G1F3 == MakeMove(make_square(0, 6), make_square(2, 5), QUIET_MOVE)
F3G1 == MakeMove(make_square(2, 5), make_square(0, 6), QUIET_MOVE)
B1C3 == MakeMove(make_square(0, 1), make_square(2, 2), QUIET_MOVE)
C3B1 == MakeMove(make_square(2, 2), make_square(0, 1), QUIET_MOVE)
G8F6 == MakeMove(make_square(7, 6), make_square(5, 5), QUIET_MOVE)
F6G8 == MakeMove(make_square(5, 5), make_square(7, 6), QUIET_MOVE)
B8C6 == MakeMove(make_square(7, 1), make_square(5, 2), QUIET_MOVE)
C6B8 == MakeMove(make_square(5, 2), make_square(7, 1), QUIET_MOVE)
DrawMoves == { G1F3, F3G1, B1C3, C3B1, G8F6, F6G8, B8C6, C6B8 }
KnightTour == << G1F3, G8F6, F3G1, F6G8, G1F3, G8F6, F3G1, F6G8 >>

InitDraw ==
    /\ \E fen \in DrawFens : pos = Position(fen)
    /\ last = [ op |-> "Position", snap |-> pos, ext |-> FALSE ]
    /\ InitOrderVars

DrawMakeMoveAct ==
    /\ Len(pos.m_boards) <= MaxDrawPly
    /\ \E m \in DrawMoves :
        /\ legal(board(pos), m)
        /\ pos' = Position_make_move(pos, m, FALSE)
    /\ last' = [ op |-> "make_move", snap |-> pos, ext |-> FALSE ]
    /\ UNCHANGED orderVars

\* One move of the UCI command `position ... moves m1 ... mk`, given before any
\* search move is on the stack: make_move, then set_init_ply.
UciPositionMoveAct ==
    /\ Len(pos.m_boards) <= MaxDrawPly
    /\ pos.m_pos = 0
    /\ \E m \in DrawMoves :
        /\ legal(board(pos), m)
        /\ pos' = set_init_ply(Position_make_move(pos, m, FALSE))
    /\ last' = [ op |-> "position_move", snap |-> pos, ext |-> FALSE ]
    /\ UNCHANGED orderVars

NextDraw ==
    \/ DrawMakeMoveAct
    \/ UciPositionMoveAct

SpecDraw == InitDraw /\ [][NextDraw]_vars

MovesPlayed(p) == [ i \in 1 .. Len(p.m_moves) |-> p.m_moves[i].move ]

(***************************************************************************)
(* SpecOrder: a Histories filled by fail_high, then one MoveOrder cursor   *)
(* constructed on an unchanged position and called repeatedly              *)
(***************************************************************************)
OrderFens == { FenPin, FenCheck, FenPromo, FenEpSet, FenTwoCaptures }

PrevMove == MakeMove(make_square(6, 4), make_square(4, 4), DOUBLE_PAWN_PUSH)

\* The moves fed to fail_high and offered as hash move: a legal capture, two
\* legal quiet moves, and a generated move that leaves the own king attacked.
CandidateMoves(b) ==
    Lowest({ m \in LegalMoves(b) : is_capture(m) })
    \cup Lowest({ m \in LegalMoves(b) : ~is_capture(m) })
    \cup Highest({ m \in LegalMoves(b) : ~is_capture(m) })
    \cup Lowest(PseudoLegal(b) \ LegalMoves(b))

InitOrder ==
    /\ \E fen \in OrderFens : pos = Position(fen)
    /\ last = [ op |-> "Position", snap |-> pos, ext |-> FALSE ]
    /\ InitOrderVars

FailHighAct ==
    /\ ~Constructed
    /\ hcalls < MaxFailHigh
    /\ \E move \in CandidateMoves(board(pos)) :
        /\ hist' = fail_high(hist, move, PrevMove, board(pos).m_turn, 1, pos.m_pos,
                             get_piece_at(board(pos), from(move)))
        /\ hlast' = [ op |-> "fail_high", snap |-> hist, move |-> move,
                      ply |-> pos.m_pos,
                      nonnull |-> hlast.nonnull /\ move # MOVE_NULL ]
    /\ hcalls' = hcalls + 1
    /\ UNCHANGED << pos, last, mo, ret >>

ConstructAct ==
    /\ ~Constructed
    /\ \E hash_move \in CandidateMoves(board(pos)) \cup { MOVE_NULL } :
       \E prev_move \in { PrevMove, MOVE_NULL } :
       \E mode \in { << FALSE, 1 >>, << FALSE, 0 >>, << TRUE, 0 >> } :
        mo' = MoveOrder(pos.m_pos, mode[2], hash_move, prev_move, mode[1])
    /\ UNCHANGED << pos, last, hist, hcalls, hlast, ret >>

NullReturns(r) == Cardinality({ i \in 1 .. Len(r) : r[i].move = MOVE_NULL })

NextMoveAct ==
    /\ Constructed
    /\ Len(ret) < MaxCalls
    /\ NullReturns(ret) <= MaxExtraCalls
    /\ LET r == next_move(mo, pos, hist)
       IN  /\ mo' = r.mo
           /\ ret' = Append(ret, [ move |-> r.move, at |-> r.at ])
    /\ UNCHANGED << pos, last, hist, hcalls, hlast >>

NextOrder ==
    \/ FailHighAct
    \/ ConstructAct
    \/ NextMoveAct

SpecOrder == InitOrder /\ [][NextOrder]_vars

Returned(r) == { r[i].move : i \in 1 .. Len(r) }
\* The calls made before the first MOVE_NULL came back.
NonNullPrefix(r) ==
    IF \E i \in 1 .. Len(r) : r[i].move = MOVE_NULL
    THEN (CHOOSE i \in 1 .. Len(r) :
            /\ r[i].move = MOVE_NULL
            /\ \A j \in 1 .. (i - 1) : r[j].move # MOVE_NULL) - 1
    ELSE Len(r)

(***************************************************************************)
(* SpecBonus: a Histories written by add_bonus with bonuses of both signs, *)
(* then one MoveOrder cursor                                               *)
(***************************************************************************)
BonusFens == { FenCheck, FenTwoCaptures }
Bonuses == { -3000, 100 }

InitBonus ==
    /\ \E fen \in BonusFens : pos = Position(fen)
    /\ last = [ op |-> "Position", snap |-> pos, ext |-> FALSE ]
    /\ InitOrderVars

AddBonusAct ==
    /\ ~Constructed
    /\ hcalls < MaxBonus
    /\ \E move \in { m \in CandidateMoves(board(pos)) : ~is_capture(m) } :
       \E bonus \in Bonuses :
        /\ hist' = add_bonus(hist, move, board(pos).m_turn,
                             get_piece_at(board(pos), from(move)), bonus)
        /\ hlast' = [ op |-> "add_bonus", snap |-> hist, move |-> move,
                      ply |-> pos.m_pos, nonnull |-> hlast.nonnull ]
    /\ hcalls' = hcalls + 1
    /\ UNCHANGED << pos, last, mo, ret >>

NextBonus ==
    \/ AddBonusAct
    \/ ConstructAct
    \/ NextMoveAct

SpecBonus == InitBonus /\ [][NextBonus]_vars

(***************************************************************************)
(* SpecHist: a Histories updated by clear() and by fail_high with a few    *)
(* move values at two plies                                                *)
(***************************************************************************)
E2E4 == MakeMove(make_square(1, 4), make_square(3, 4), DOUBLE_PAWN_PUSH)
HistMoves == { G1F3, B1C3, G8F6, E2E4, MOVE_NULL }
HistPlies == { 0, 1 }

InitHist ==
    /\ pos = Position(FenStart)
    /\ last = [ op |-> "Position", snap |-> pos, ext |-> FALSE ]
    /\ InitOrderVars

HistClearAct ==
    /\ hcalls > 0
    /\ hist' = Histories_clear
    /\ hcalls' = 0
    /\ hlast' = [ op |-> "clear", snap |-> hist, move |-> MOVE_NULL, ply |-> 0,
                  nonnull |-> hlast.nonnull ]
    /\ UNCHANGED << pos, last, mo, ret >>

HistFailHighAct ==
    /\ hcalls < MaxHistCalls
    /\ \E move \in HistMoves : \E ply \in HistPlies :
        /\ hist' = fail_high(hist, move, PrevMove, board(pos).m_turn, 1, ply,
                             get_piece_at(board(pos), from(move)))
        /\ hlast' = [ op |-> "fail_high", snap |-> hist, move |-> move, ply |-> ply,
                      nonnull |-> hlast.nonnull /\ move # MOVE_NULL ]
    /\ hcalls' = hcalls + 1
    /\ UNCHANGED << pos, last, mo, ret >>

NextHist ==
    \/ HistClearAct
    \/ HistFailHighAct

SpecHist == InitHist /\ [][NextHist]_vars

(***************************************************************************)
(* SpecSee: the boards on which Board::see is asked about the generated    *)
(* captures                                                                *)
(***************************************************************************)
SeeFens == { FenSee, FenEpKing, FenPromo, FenQueenPin }

InitSee ==
    /\ \E fen \in SeeFens : pos = Position(fen)
    /\ last = [ op |-> "Position", snap |-> pos, ext |-> FALSE ]
    /\ InitOrderVars

SeeMakeMoveAct ==
    /\ Len(pos.m_boards) <= MaxSeePly
    /\ \E m \in LegalMoves(board(pos)) :
        /\ pos' = Position_make_move(pos, m, FALSE)
        /\ last' = [ op |-> "make_move", snap |-> pos, ext |-> FALSE ]
    /\ UNCHANGED orderVars

NextSee == SeeMakeMoveAct

SpecSee == InitSee /\ [][NextSee]_vars

Captures(b) == { m \in PseudoLegal(b) : is_capture(m) }

(***************************************************************************)
(* Claims                                                                  *)
(***************************************************************************)

\* C1: every board returned by Board::make_move for a legal move is_valid():
\* the side that just moved is not in check, the twelve bitboards are pairwise
\* disjoint, the mailbox agrees with them, the hash equals generate_hash(),
\* and the phase and material/PST score equal their recomputation.
C1_MakeMoveIsValid ==
    (Len(pos.m_moves) > 0 /\ TopMove(pos) # MOVE_NULL) => is_valid(board(pos))

\* C1 witness: a promotion with capture has been made and the board is valid.
C1_Witness ==
    /\ last.op = "make_move"
    /\ is_promotion(TopMove(pos)) /\ is_capture(TopMove(pos))
    /\ is_valid(board(pos))

\* C2: on every board reached from a FEN-parsed board by make_move and
\* make_null_move, the incrementally kept hash equals generate_hash().
C2_HashIsGenerateHash == board(pos).m_hash = generate_hash(board(pos))

\* C2 witness: an en-passant capture answered by a null move, the hash of the
\* resulting board being the from-scratch hash.
C2_Witness ==
    /\ last.op = "make_null_move"
    /\ Len(pos.m_moves) >= 2
    /\ is_ep_capture(pos.m_moves[Len(pos.m_moves) - 1].move)
    /\ board(pos).m_hash = generate_hash(board(pos))

\* C3: make_move(m, extension) followed by unmake_move(), and make_null_move()
\* followed by unmake_null_move(), leave the Position as it was.
C3_MakeUnmakeIdentity ==
    last.op \in { "make_unmake", "make_unmake_null" } => pos = last.snap

\* C3 witness: a move made with the extension flag set has just been unmade
\* on a Position that already counted an extension.
C3_Witness ==
    /\ last.op = "make_unmake"
    /\ last.ext
    /\ pos.m_extensions > 0
    /\ pos = last.snap

\* C4: Board::legal rejects every move value that fails a structural rule.
StructuralFault(b, m) ==
    LET fromPc == b.m_board_pieces[from(m)]
        toPc   == b.m_board_pieces[to(m)]
        ours(pc)  == pc # NO_PIECE /\ get_turn(pc) = b.m_turn
        theirs(pc) == pc # NO_PIECE /\ get_turn(pc) # b.m_turn
        pawnEp == /\ is_ep_capture(m) /\ fromPc = get_piece(PAWN, b.m_turn)
                  /\ to(m) = b.m_enpassant_square
    IN  \/ from(m) = to(m)
        \/ move_type(m) \in { INVALID_1, INVALID_2 }
        \/ is_ep_capture(m) /\ (b.m_enpassant_square = SQUARE_NULL
                                \/ b.m_enpassant_square # to(m))
        \/ ~ours(fromPc)
        \/ ours(toPc)
        \/ is_capture(m) # (theirs(toPc) \/ pawnEp)
        \/ /\ get_piece_type(fromPc) # PAWN
           /\ (is_double_pawn_push(m) \/ is_ep_capture(m) \/ is_promotion(m))
        \/ get_piece_type(fromPc) # KING /\ is_castle(m)

C4_LegalRejectsStructuralFaults ==
    \A m \in ProbeMoves(board(pos)) : StructuralFault(board(pos), m) => ~legal(board(pos), m)

\* C4 witness: a legal capture exists whose from/to squares, re-typed INVALID_1,
\* are rejected.
C4_Witness ==
    \E m \in LegalMoves(board(pos)) :
        /\ move_type(m) = CAPTURE
        /\ MakeMove(from(m), to(m), INVALID_1) \in ProbeMoves(board(pos))
        /\ ~legal(board(pos), MakeMove(from(m), to(m), INVALID_1))

\* C5 as stated: every non-null move returned by MoveOrder::next_move() is
\* legal in the current position, whatever the hash move, the previous move,
\* the Histories contents and the quiescence flag.
C5_EveryReturnLegal ==
    \A i \in 1 .. Len(ret) :
        ret[i].move # MOVE_NULL => legal(board(pos), ret[i].move)

\* C5 amended: a non-null move returned by the HASH, COUNTERMOVES or KILLERS
\* stage passes Board::legal; a move returned by the CAPTURES stage is a capture
\* of the generated list and one returned by the QUIET stage a non-capture of
\* it, neither being checked for leaving the own king attacked.  (Stated of
\* the latest return: every return is the latest one in the state it is made.)
C5_ReturnLegalOrGenerated ==
    Len(ret) > 0 =>
        LET move == ret[Len(ret)].move
            at == ret[Len(ret)].at
        IN  move # MOVE_NULL =>
                CASE at \in { HASH, COUNTERMOVES, KILLERS } -> legal(board(pos), move)
                  [] at = CAPTURES ->
                        move \in PseudoLegal(board(pos)) /\ is_capture(move)
                  [] at = QUIET ->
                        move \in PseudoLegal(board(pos)) /\ ~is_capture(move)
                  [] OTHER -> FALSE

\* C5 witness: a cursor has returned a legal killer and, from the QUIET stage, a
\* generated move that is not legal.
C5_Witness ==
    /\ \E i \in 1 .. Len(ret) :
        ret[i].at = KILLERS /\ legal(board(pos), ret[i].move)
    /\ \E i \in 1 .. Len(ret) :
        /\ ret[i].at = QUIET
        /\ ret[i].move \in PseudoLegal(board(pos))
        /\ ~legal(board(pos), ret[i].move)

\* C6: on an unchanged position next_move() returns MOVE_NULL after at most
\* (number of pseudo-legal moves) + 6 calls, and every call returns, leaving
\* the cursor at its stage or a later one.
C6_NullWithinBound ==
    Constructed =>
        /\ NonNullPrefix(ret) + 1 <= Cardinality(PseudoLegal(board(pos))) + 6
        /\ next_move(mo, pos, hist).mo.m_stage \in mo.m_stage .. NO_MOVES

\* C6 witness: the first MOVE_NULL came after more non-null returns than the
\* board has pseudo-legal moves (a capture came back a second time, as
\* countermove or as killer).
C6_Witness ==
    /\ Len(ret) > 0
    /\ ret[Len(ret)].move = MOVE_NULL
    /\ NonNullPrefix(ret) > Cardinality(PseudoLegal(board(pos)))

\* C7: without the quiescence flag, the moves returned up to the first
\* MOVE_NULL include every legal move of the board.
C7_AllLegalMovesReturned ==
    (Constructed /\ ~mo.m_quiescence /\ MOVE_NULL \in Returned(ret)) =>
        LegalMoves(board(pos)) \subseteq Returned(ret)

\* C7 witness: a depth-0 cursor, whose threshold no unscored quiet move passes,
\* has returned MOVE_NULL after returning every legal move, a quiet move that
\* scores 0 among them.
C7_Witness ==
    /\ Constructed /\ ~mo.m_quiescence /\ mo.m_depth = 0
    /\ MOVE_NULL \in Returned(ret)
    /\ LegalMoves(board(pos)) \subseteq Returned(ret)
    /\ \E i \in 1 .. Len(ret) :
        /\ ret[i].at = QUIET
        /\ legal(board(pos), ret[i].move)
        /\ quiet_score(pos, hist, ret[i].move) = 0

\* C8: from the initial position, is_draw(false) is false after g1f3 g8f6 f3g1
\* f6g8 (second occurrence of the initial position) and true after the same
\* four moves again (third occurrence).
C8_ThreefoldAfterTwoTours ==
    pos.m_boards[1] = BoardFromFen(FenStart) =>
        /\ MovesPlayed(pos) = SubSeq(KnightTour, 1, 4) => ~is_draw(pos, FALSE)
        /\ MovesPlayed(pos) = KnightTour => is_draw(pos, FALSE)

\* The repetition window of the claim: the stack indices ply-4, ply-6, ... down
\* to ply-n+1, n = min(ply+1, half_move_clock), ply the index of the current board.
RepetitionWindow(p) ==
    LET ply == Len(p.m_boards) - 1
        n == Min(ply + 1, board(p).m_half_move_clock)
    IN  { j \in 0 .. ply : /\ j <= ply - 4
                           /\ (ply - j) % 2 = 0
                           /\ j >= ply - n + 1 }

\* C9: with half_move_clock < 100, is_draw(true) is true whenever one board of
\* the repetition window has the hash of the current board.
C9_OneRepeatSuffices ==
    ( /\ board(pos).m_half_move_clock < 100
      /\ \E j \in RepetitionWindow(pos) : pos.m_boards[j + 1].m_hash = board(pos).m_hash )
    => is_draw(pos, TRUE)

NoRepeatedHash(p) ==
    \A i, j \in 1 .. Len(p.m_boards) : i # j => p.m_boards[i].m_hash # p.m_boards[j].m_hash

\* C10: is_draw(unique) is true for either unique whenever half_move_clock >= 100,
\* and along a line with no repeated hash it is false at half_move_clock 99.
C10_FiftyMoveRule ==
    \A unique \in BOOLEAN :
        /\ board(pos).m_half_move_clock >= 100 => is_draw(pos, unique)
        /\ (board(pos).m_half_move_clock = 99 /\ NoRepeatedHash(pos)) => ~is_draw(pos, unique)

\* C10 witness: a line without repeated hash has taken the clock from 99,
\* where is_draw was false, to 100, where it is true.
C10_Witness ==
    /\ board(pos).m_half_move_clock = 100
    /\ NoRepeatedHash(pos)
    /\ is_draw(pos, FALSE) /\ is_draw(pos, TRUE)
    /\ ~is_draw(Position_unmake_move(pos), FALSE)
    /\ ~is_draw(Position_unmake_move(pos), TRUE)

\* C11: for every board b reached from a FEN by legal moves and null moves,
\* Board(b.to_fen()) equals b by operator== (hash, side to move, ep square,
\* castling rights, piece bitboards) and has the clocks of b.
C11_FenRoundTrip ==
    LET b == board(pos)
        parsed == BoardFromFen(to_fen(b))
    IN  /\ BoardEquals(parsed, b)
        /\ parsed.m_half_move_clock = b.m_half_move_clock
        /\ parsed.m_full_move_clock = b.m_full_move_clock

\* C11 witness: a board made by a move, without castling rights (written as
\* "-") and with a three-digit half-move clock, is re-read as itself.
C11_Witness ==
    /\ last.op = "make_move"
    /\ \A side \in CastleSides : \A turn \in Turns :
        ~board(pos).m_castling_rights[side][turn]
    /\ board(pos).m_half_move_clock >= 100
    /\ BoardEquals(BoardFromFen(to_fen(board(pos))), board(pos))
    /\ BoardFromFen(to_fen(board(pos))).m_half_move_clock = board(pos).m_half_move_clock

\* The board a move was made on, and whether the top board was made by a move.
PrevBoard == board(last.snap)
MoveMade == last.op = "make_move"
StartAfterE2E4 == Board_make_move(BoardFromFen(FenStart), E2E4)

\* C12: make_move adds 1 to the full-move clock iff the mover is BLACK, and sets
\* the half-move clock to 0 if the moved piece is a pawn or the move a capture,
\* else adds 1 to it; after e2e4 from the initial position the ep square is e3,
\* the half-move clock 0, the full-move clock 1 and the side to move BLACK.
C12_MakeMoveClocks ==
    /\ MoveMade =>
        LET m == TopMove(pos)
            b == board(pos)
        IN  /\ b.m_full_move_clock =
                 PrevBoard.m_full_move_clock + (IF PrevBoard.m_turn = BLACK THEN 1 ELSE 0)
            /\ b.m_half_move_clock =
                 IF \/ PrevBoard.m_board_pieces[from(m)] = get_piece(PAWN, PrevBoard.m_turn)
                    \/ move_type(m) \in { CAPTURE, EP_CAPTURE } \cup (12 .. 15)
                 THEN 0
                 ELSE PrevBoard.m_half_move_clock + 1
    /\ StartAfterE2E4.m_enpassant_square = make_square(2, 4)
    /\ StartAfterE2E4.m_half_move_clock = 0
    /\ StartAfterE2E4.m_full_move_clock = 1
    /\ StartAfterE2E4.m_turn = BLACK

\* C12 witness: BLACK has made a move that is neither a pawn move nor a capture:
\* both clocks went up by one.
C12_Witness ==
    /\ MoveMade
    /\ PrevBoard.m_turn = BLACK
    /\ board(pos).m_full_move_clock = PrevBoard.m_full_move_clock + 1
    /\ board(pos).m_half_move_clock = PrevBoard.m_half_move_clock + 1
    /\ board(pos).m_half_move_clock >= 2

\* The rights the claim has a move clear: [side][turn].
ClearedRight(prev, m, side, turn) ==
    LET mover == prev.m_turn
        moved == prev.m_board_pieces[from(m)]
        home(t, s) == make_square(IF t = WHITE THEN 0 ELSE 7, IF s = KINGSIDE THEN 7 ELSE 0)
    IN  \/ turn = mover /\ moved = get_piece(KING, mover)
        \/ turn = mover /\ moved = get_piece(ROOK, mover) /\ from(m) = home(mover, side)
        \/ turn # mover /\ is_capture(m) /\ to(m) = home(turn, side)

\* C13: make_move clears exactly the castling rights named by the rules (king
\* move, rook leaving its home square, capture on an enemy rook home square) and
\* leaves every other right as it was.
C13_MakeMoveCastlingRights ==
    MoveMade =>
        \A side \in CastleSides : \A turn \in Turns :
            board(pos).m_castling_rights[side][turn] =
                (PrevBoard.m_castling_rights[side][turn]
                 /\ ~ClearedRight(PrevBoard, TopMove(pos), side, turn))

\* C13 witness: a capture on the enemy's A-file rook home square has cleared the
\* enemy's queenside right, the mover having no right to lose.
C13_Witness ==
    /\ MoveMade
    /\ is_capture(TopMove(pos))
    /\ to(TopMove(pos)) = SQUARE_A8
    /\ PrevBoard.m_castling_rights[QUEENSIDE][BLACK]
    /\ ~board(pos).m_castling_rights[QUEENSIDE][BLACK]

\* C14: the board made by make_move has the square passed over as ep square if
\* the move is a double pawn push and SQUARE_NULL otherwise; the board made by
\* make_null_move has SQUARE_NULL.
C14_EpSquare ==
    Len(pos.m_moves) > 0 =>
        LET m == TopMove(pos)
            prev == pos.m_boards[Len(pos.m_boards) - 1]
        IN  board(pos).m_enpassant_square =
                IF m # MOVE_NULL /\ move_type(m) = DOUBLE_PAWN_PUSH
                THEN to(m) - (IF prev.m_turn = WHITE THEN 8 ELSE -8)
                ELSE SQUARE_NULL

\* C14 witness: a double pawn push has been made; the ep square is the square
\* passed over and an en-passant capture onto it is legal.
C14_Witness ==
    /\ MoveMade
    /\ move_type(TopMove(pos)) = DOUBLE_PAWN_PUSH
    /\ 2 * board(pos).m_enpassant_square = from(TopMove(pos)) + to(TopMove(pos))
    /\ \E m \in LegalMoves(board(pos)) :
        is_ep_capture(m) /\ to(m) = board(pos).m_enpassant_square

E1G1 == MakeMove(make_square(0, 4), make_square(0, 6), KING_CASTLE)
CastleAfterE1G1 == Board_make_move(BoardFromFen(FenCastle), E1G1)
CastleE1G1Legal == legal(BoardFromFen(FenCastle), E1G1)

\* The mailbox the claim expects after a castle move made on prev.
CastleMailbox(prev, m) ==
    LET mover == prev.m_turn
        back == IF mover = WHITE THEN 0 ELSE 7
        kingside == move_type(m) = KING_CASTLE
        rookFrom == make_square(back, IF kingside THEN 7 ELSE 0)
        rookTo == make_square(back, IF kingside THEN 5 ELSE 3)
    IN  [ sq \in Squares |->
            IF sq = to(m) THEN get_piece(KING, mover)
            ELSE IF sq = rookTo THEN get_piece(ROOK, mover)
            ELSE IF sq \in { from(m), rookFrom } THEN NO_PIECE
            ELSE prev.m_board_pieces[sq] ]

\* C15: a castle move puts the king on m.to() and the mover's rook on the F-file
\* (kingside) or D-file (queenside) square of the back rank, empties m.from()
\* and the rook's home square and moves no other piece; e1g1 is legal on
\* r3k2r/8/8/8/8/8/8/R3K2R w KQkq - 0 1 and puts the h1 rook on f1.
C15_CastleMovesRook ==
    /\ (MoveMade /\ move_type(TopMove(pos)) \in { KING_CASTLE, QUEEN_CASTLE }) =>
        /\ board(pos).m_board_pieces = CastleMailbox(PrevBoard, TopMove(pos))
        /\ MailboxAgrees(board(pos))
    /\ CastleE1G1Legal
    /\ CastleAfterE1G1.m_board_pieces[make_square(0, 5)] = get_piece(ROOK, WHITE)
    /\ CastleAfterE1G1.m_board_pieces[SQUARE_H1] = NO_PIECE

\* C15 witness: BLACK has castled queenside; its rook stands on d8.
C15_Witness ==
    /\ MoveMade
    /\ move_type(TopMove(pos)) = QUEEN_CASTLE
    /\ PrevBoard.m_turn = BLACK
    /\ board(pos).m_board_pieces[make_square(7, 3)] = get_piece(ROOK, BLACK)
    /\ board(pos).m_board_pieces[SQUARE_A8] = NO_PIECE

\* C16: make_null_move flips the side to move, clears the ep square and XORs the
\* side-to-move term and the predecessor's ep-file term into the hash; the
\* pieces, the castling rights and both clocks are the predecessor's, and the
\* predecessor board is as it was.
C16_NullMoveFrame ==
    last.op = "make_null_move" =>
        LET b == board(pos)
            epTerm == IF PrevBoard.m_enpassant_square # SQUARE_NULL
                      THEN { get_ep_file(file(PrevBoard.m_enpassant_square)) } ELSE {}
        IN  /\ b.m_turn = OtherTurn(PrevBoard.m_turn)
            /\ b.m_enpassant_square = SQUARE_NULL
            /\ b.m_hash = Xor(Xor(PrevBoard.m_hash, { get_black_move }), epTerm)
            /\ b.m_pieces = PrevBoard.m_pieces
            /\ b.m_board_pieces = PrevBoard.m_board_pieces
            /\ b.m_castling_rights = PrevBoard.m_castling_rights
            /\ b.m_half_move_clock = PrevBoard.m_half_move_clock
            /\ b.m_full_move_clock = PrevBoard.m_full_move_clock
            /\ pos.m_boards[Len(pos.m_boards) - 1] = PrevBoard

\* C16 witness: a null move has been made on a board that had an ep square and
\* a castling right.
C16_Witness ==
    /\ last.op = "make_null_move"
    /\ PrevBoard.m_enpassant_square # SQUARE_NULL
    /\ \E side \in CastleSides : \E turn \in Turns : PrevBoard.m_castling_rights[side][turn]
    /\ board(pos).m_enpassant_square = SQUARE_NULL
    /\ board(pos).m_hash # Xor(PrevBoard.m_hash, { get_black_move })

\* The cursor as constructed, set to the stage that follows HASH.
AfterHashStage ==
    [ MoveOrder(mo.m_ply, mo.m_depth, mo.m_hash_move, mo.m_prev_move, mo.m_quiescence)
        EXCEPT !.m_stage = CAPTURES_INIT ]

\* C17: the first call returns the hash move, from the HASH stage, iff
\* Board::legal accepts it; if not, the first call returns what the later
\* stages return first; no later call returns from the HASH stage.
C17_HashStage ==
    /\ Len(ret) = 1 =>
        IF legal(board(pos), mo.m_hash_move)
        THEN ret[1] = [ move |-> mo.m_hash_move, at |-> HASH ]
        ELSE /\ ret[1].at # HASH
             /\ ret[1].move = next_move(AfterHashStage, pos, hist).move
             /\ ret[1].at = next_move(AfterHashStage, pos, hist).at
             /\ ret[1].move = MOVE_NULL => ret[1].at \in { CAPTURES_END, NO_MOVES }
    /\ Len(ret) > 1 => ret[Len(ret)].at # HASH

\* C17 witness: the hash move is a generated move that Board::legal rejects;
\* the first call has returned a capture instead.
C17_Witness ==
    /\ Len(ret) = 1
    /\ mo.m_hash_move \in PseudoLegal(board(pos))
    /\ ~legal(board(pos), mo.m_hash_move)
    /\ ret[1].at = CAPTURES
    /\ ret[1].move # mo.m_hash_move

\* C18: with quiescence set and the side to move not in check, every call
\* returns the hash move, a capture, or MOVE_NULL from CAPTURES_END, never a
\* move of COUNTERMOVES, KILLERS or QUIET; in check, or without quiescence,
\* no call returns from CAPTURES_END and MOVE_NULL comes only from NO_MOVES.
C18_QuiescenceCutOff ==
    Len(ret) > 0 =>
        LET r == ret[Len(ret)]
        IN  IF mo.m_quiescence /\ ~in_check(pos)
            THEN /\ r.at \in { HASH, CAPTURES, CAPTURES_END }
                 /\ (r.at = CAPTURES_END) = (r.move = MOVE_NULL)
            ELSE /\ r.at # CAPTURES_END
                 /\ (r.at = NO_MOVES) = (r.move = MOVE_NULL)

\* C18 witness: a quiescence cursor on a board not in check has returned a
\* capture and then MOVE_NULL, a legal quiet move being left unreturned.
C18_Witness ==
    /\ Len(ret) >= 2
    /\ mo.m_quiescence /\ ~in_check(pos)
    /\ ret[Len(ret) - 1].at = CAPTURES
    /\ ret[Len(ret)] = [ move |-> MOVE_NULL, at |-> CAPTURES_END ]
    /\ \E m \in LegalMoves(board(pos)) : ~is_capture(m) /\ m \notin Returned(ret)

\* C19: a call of next_move() never moves the stage backwards, and a call made
\* after MOVE_NULL was returned returns MOVE_NULL and leaves the cursor as it is.
C19_StagesMonotonic ==
    [][ (Constructed /\ mo'.m_stage >= HASH) =>
            /\ mo'.m_stage >= mo.m_stage
            /\ mo'.m_stage <= NO_MOVES
            /\ (Len(ret) > 0 /\ ret[Len(ret)].move = MOVE_NULL) =>
                 (mo' = mo /\ ret'[Len(ret')].move = MOVE_NULL) ]_vars

\* C19 witness: the cursor stands at NO_MOVES after a second MOVE_NULL, having
\* returned moves from the CAPTURES and the QUIET stage before.
C19_Witness ==
    /\ Constructed
    /\ mo.m_stage = NO_MOVES
    /\ NullReturns(ret) >= 2
    /\ \E i \in 1 .. Len(ret) : ret[i].at = CAPTURES
    /\ \E i \in 1 .. Len(ret) : ret[i].at = QUIET

\* C20: no move returned from the QUIET stage has a quiet score at or below
\* -3000 * depth (the quiets at or below the threshold are discarded in
\* QUIET_INIT).
C20_QuietAboveThreshold ==
    \A i \in 1 .. Len(ret) :
        ret[i].at = QUIET => quiet_score(pos, hist, ret[i].move) > -3000 * mo.m_depth
(***************************************************************************)
(* C21: fail_high(move, prev, turn, depth, ply, piece) on a move that is   *)
(* not among the killer slots of ply puts it in slot 0, moves the former   *)
(* slot i-1 to slot i and drops the former last slot; on a move that is    *)
(* already a killer of ply it leaves the slots of ply as they are. The     *)
(* slots of every other ply are unchanged.                                 *)
(***************************************************************************)
KillerSlots == 0 .. (NUM_KILLERS - 1)
FailHighDone == hlast.op = "fail_high"

C21_FailHighKillers ==
    FailHighDone =>
        /\ ~is_killer(hlast.snap, hlast.move, hlast.ply) =>
                /\ get_killer(hist, 0, hlast.ply) = hlast.move
                /\ \A i \in KillerSlots \ { 0 } :
                        get_killer(hist, i, hlast.ply)
                            = get_killer(hlast.snap, i - 1, hlast.ply)
        /\ is_killer(hlast.snap, hlast.move, hlast.ply) =>
                \A i \in KillerSlots :
                    get_killer(hist, i, hlast.ply) = get_killer(hlast.snap, i, hlast.ply)
        /\ \A ply \in HistPlies \ { hlast.ply } : \A i \in KillerSlots :
                get_killer(hist, i, ply) = get_killer(hlast.snap, i, ply)

\* A fourth distinct move pushed onto three full slots, while the other ply
\* holds killers too.
C21_Witness ==
    /\ FailHighDone
    /\ ~is_killer(hlast.snap, hlast.move, hlast.ply)
    /\ get_killer(hlast.snap, NUM_KILLERS - 1, hlast.ply) # MOVE_NULL
    /\ ~is_killer(hist, get_killer(hlast.snap, NUM_KILLERS - 1, hlast.ply), hlast.ply)
    /\ \E ply \in HistPlies \ { hlast.ply } : get_killer(hist, 0, ply) # MOVE_NULL

(***************************************************************************)
(* C22: see(move, 0) of a capture that no piece of the other side attacks  *)
(* is 10 * value(victim); of a capture that is recaptured, with no piece   *)
(* of the mover left to take back, it is                                   *)
(* 10 * (value(victim) - value(capturing piece)). The values are P 10,     *)
(* N 30, B 30, R 50, Q 90, K 1000, and the victim of an ep capture is a    *)
(* pawn. The queen taking the pawn that only a knight defends gives -800.  *)
(***************************************************************************)
SeeValue == [ p \in PieceTypes |->
                CASE p = PAWN -> 10 [] p = KNIGHT -> 30 [] p = BISHOP -> 30
                  [] p = ROOK -> 50 [] p = QUEEN -> 90 [] OTHER -> 1000 ]
Victim(b, m) == IF is_ep_capture(m) THEN PAWN ELSE get_piece_at(b, to(m))

\* The pieces of the other side that can take back on the target square once
\* the capturing piece has left its square.
Defenders(b, m) ==
    attackers(b, to(m), get_pieces(b) \ { from(m) }, OtherTurn(b.m_turn))
        \ { from(m) }

\* No piece of the mover attacks the target square after the capturing piece
\* and a recapturing defender have left their squares.
NoFurtherAttacker(b, m) ==
    \A d \in Defenders(b, m) :
        attackers(b, to(m), get_pieces(b) \ { from(m), d }, b.m_turn)
            \ { from(m) } = {}

E2E5 == MakeMove(make_square(1, 4), make_square(4, 4), CAPTURE)
SeeQueenTakesPawn == see(BoardFromFen(FenSee), E2E5, 0)

EligibleKillers ==
    { k \in { get_killer(hist, i, mo.m_ply) : i \in 0 .. (NUM_KILLERS - 1) } :
        /\ k # mo.m_hash_move
        /\ k # mo.m_countermove
        /\ legal(board(pos), k) }

PastKillers(r) == { j \in 1 .. Len(r) : r[j].at \in { QUIET, NO_MOVES } }

C23_EveryKillerReturned ==
    (Constructed /\ PastKillers(ret) # {}) =>
        \A k \in EligibleKillers :
            \E j \in 1 .. Len(ret) :
                /\ ret[j] = [ move |-> k, at |-> KILLERS ]
                /\ \A q \in PastKillers(ret) : j < q

(***************************************************************************)
(* C24: the moves returned from the CAPTURES stage come in non-increasing  *)
(* order of piece_score[victim] - piece_score[attacker] with P 10, N 30,   *)
(* B 31, R 50, Q 90, K 1000 (the victim of an ep capture is a pawn), and   *)
(* once the stage is over they are exactly the generated captures other    *)
(* than the hash move, each returned once.                                 *)
(***************************************************************************)
MvvLvaValue == [ p \in PieceTypes |->
                    CASE p = PAWN -> 10 [] p = KNIGHT -> 30 [] p = BISHOP -> 31
                      [] p = ROOK -> 50 [] p = QUEEN -> 90 [] OTHER -> 1000 ]
MvvLva(b, m) == MvvLvaValue[Victim(b, m)] - MvvLvaValue[get_piece_at(b, from(m))]

ReturnsAt(r, stage) == { j \in 1 .. Len(r) : r[j].at = stage }
CapturesStageOver == Constructed /\ mo.m_stage > CAPTURES

C24_CapturesByMvvLva ==
    Constructed =>
        /\ \A i, j \in ReturnsAt(ret, CAPTURES) :
                i < j => /\ MvvLva(board(pos), ret[i].move) >= MvvLva(board(pos), ret[j].move)
                         /\ ret[i].move # ret[j].move
        /\ { ret[j].move : j \in ReturnsAt(ret, CAPTURES) }
                \subseteq Captures(board(pos)) \ { mo.m_hash_move }
        /\ CapturesStageOver =>
                { ret[j].move : j \in ReturnsAt(ret, CAPTURES) }
                    = Captures(board(pos)) \ { mo.m_hash_move }

\* Two captures of different scores came back, the generator's second first.
C24_Witness ==
    /\ CapturesStageOver
    /\ \E i, j \in ReturnsAt(ret, CAPTURES) :
            /\ i < j
            /\ ret[i].move > ret[j].move
            /\ MvvLva(board(pos), ret[i].move) > MvvLva(board(pos), ret[j].move)

(***************************************************************************)
(* C25: the moves returned from the QUIET stage come in non-increasing     *)
(* order of butterfly[turn][from][to] + piece_to[piece][to], whatever the  *)
(* Histories hold (negative scores written by add_bonus included) and      *)
(* whatever the depth.                                                     *)
(***************************************************************************)
C25_QuietsByScore ==
    Constructed =>
        \A i, j \in ReturnsAt(ret, QUIET) :
            i < j => quiet_score(pos, hist, ret[i].move)
                        >= quiet_score(pos, hist, ret[j].move)

(***************************************************************************)
(* C26: set_init_ply() sets ply() to 0 and leaves the board stack and the  *)
(* move-info stack as they are; is_draw takes its window from the number   *)
(* of boards, not from ply(). After the k moves of a UCI position command  *)
(* (make_move, then set_init_ply, for each) the Position holds k + 1       *)
(* boards with ply() = 0, and is_draw answers as it does on the same line  *)
(* played by make_move alone, so it sees the boards before the search      *)
(* root.                                                                   *)
(***************************************************************************)
RECURSIVE Replay(_, _, _)
Replay(p, moves, i) ==
    IF i > Len(moves) THEN p
    ELSE Replay(Position_make_move(p, moves[i].move, moves[i].extended), moves, i + 1)

\* The same line played from its first board by make_move alone.
PlayedBySearch(p) ==
    Replay([ p EXCEPT !.m_boards = << p.m_boards[1] >>, !.m_moves = << >>,
                      !.m_pos = 0, !.m_stack = 0, !.m_extensions = 0 ],
           p.m_moves, 1)

C26_SetInitPlyKeepsHistory ==
    /\ last.op = "position_move" =>
            /\ pos.m_pos = 0
            /\ Len(pos.m_moves) = Len(last.snap.m_moves) + 1
            /\ Len(pos.m_boards) = Len(pos.m_moves) + 1
            /\ LET made == Position_make_move(last.snap, TopMove(pos), FALSE)
               IN  /\ pos.m_boards = made.m_boards
                   /\ pos.m_moves = made.m_moves
                   /\ pos.m_extensions = made.m_extensions
    /\ PlayedBySearch(pos).m_boards = pos.m_boards
    /\ \A unique \in BOOLEAN :
            is_draw(pos, unique) = is_draw(PlayedBySearch(pos), unique)

\* Eight moves given by the position command, none by the search, and the
\* board of the root repeats a board played before it.
C26_Witness ==
    /\ last.op = "position_move"
    /\ Len(pos.m_moves) = 8
    /\ pos.m_pos = 0
    /\ PlayedBySearch(pos).m_pos = 8
    /\ board(pos).m_half_move_clock < 100
    /\ is_draw(pos, TRUE)

(***************************************************************************)
(* C27: one MoveOrder cursor never returns the same non-null move twice,   *)
(* whatever the hash move, the previous move, the quiescence flag and the  *)
(* Histories are.                                                          *)
(***************************************************************************)
C27_NoMoveReturnedTwice ==
    Constructed =>
        \A i, j \in 1 .. Len(ret) :
            (i < j /\ ret[i].move # MOVE_NULL) => ret[i].move # ret[j].move

(***************************************************************************)
(* C28: next_move() returns MOVE_NULL only from CAPTURES_END, in           *)
(* quiescence with the side to move not in check, or from NO_MOVES. An     *)
(* empty or illegal hash move, countermove or killer slot is skipped       *)
(* without ending the enumeration: when MOVE_NULL comes back, the          *)
(* generated captures (from NO_MOVES: the generated quiets as well) other  *)
(* than the hash move have all been returned.                              *)
(***************************************************************************)
ReturnedBefore(r, j) == { r[i].move : i \in 1 .. (j - 1) }

C28_NullOnlyAtTheEnd ==
    Constructed =>
        \A j \in 1 .. Len(ret) :
            ret[j].move = MOVE_NULL =>
                \/ /\ ret[j].at = CAPTURES_END
                   /\ mo.m_quiescence
                   /\ ~in_check(pos)
                   /\ Captures(board(pos)) \ { mo.m_hash_move }
                        \subseteq ReturnedBefore(ret, j)
                \/ /\ ret[j].at = NO_MOVES
                   /\ PseudoLegal(board(pos)) \ { mo.m_hash_move }
                        \subseteq ReturnedBefore(ret, j)

\* The enumeration ran to NO_MOVES past an empty hash move, an empty
\* countermove slot and a killer slot holding an illegal move.
C28_Witness ==
    /\ Constructed
    /\ mo.m_hash_move = MOVE_NULL
    /\ countermove(hist, mo.m_prev_move) = MOVE_NULL
    /\ get_killer(hist, 0, mo.m_ply) # MOVE_NULL
    /\ ~legal(board(pos), get_killer(hist, 0, mo.m_ply))
    /\ get_killer(hist, 1, mo.m_ply) = MOVE_NULL
    /\ Len(ret) > 2
    /\ ret[Len(ret)] = [ move |-> MOVE_NULL, at |-> NO_MOVES ]

(***************************************************************************)
(* C29: after any sequence of make_move / make_null_move and matching      *)
(* unmake_move / unmake_null_move calls, with set_init_ply() anywhere      *)
(* between them, the board stack holds one entry more than the move-info   *)
(* stack and num_extensions() is the number of move-info entries whose     *)
(* extended flag is set.                                                   *)
(***************************************************************************)
ExtendedEntries(p) == { i \in 1 .. Len(p.m_moves) : p.m_moves[i].extended }

C29_StacksInStep ==
    /\ Len(pos.m_boards) = Len(pos.m_moves) + 1
    /\ pos.m_extensions = Cardinality(ExtendedEntries(pos))

\* An extended move was made and unmade above a root set by set_init_ply(),
\* and an extended move is still on the stack below the root.
C29_Witness ==
    /\ last.op = "make_unmake"
    /\ last.ext
    /\ pos.m_pos = 0
    /\ Len(pos.m_moves) = 1
    /\ pos.m_extensions = 1

(***************************************************************************)
(* C30: along a line of make_move and make_null_move calls a castling      *)
(* right (side, colour) that is absent in one board is absent in every     *)
(* later board.                                                            *)
(***************************************************************************)
HasRight(b, side, turn) == b.m_castling_rights[side][turn]

C30_CastlingRightsMonotone ==
    \A i, j \in 1 .. Len(pos.m_boards) :
        i < j =>
            \A side \in CastleSides : \A turn \in Turns :
                ~HasRight(pos.m_boards[i], side, turn)
                    => ~HasRight(pos.m_boards[j], side, turn)

\* A right held by the first board is lost by a move and stays lost over a
\* null move, while another right is kept along the line.
C30_Witness ==
    /\ Len(pos.m_boards) = 3
    /\ TopMove(pos) = MOVE_NULL
    /\ \E side \in CastleSides : \E turn \in Turns :
            /\ HasRight(pos.m_boards[1], side, turn)
            /\ ~HasRight(pos.m_boards[2], side, turn)
            /\ ~HasRight(pos.m_boards[3], side, turn)
    /\ \E side \in CastleSides : \E turn \in Turns : HasRight(pos.m_boards[3], side, turn)

(***************************************************************************)
(* C31: as long as every fail_high() call had a non-null move, whatever    *)
(* clear() calls came in between, the non-null killers of each ply are     *)
(* pairwise distinct, they fill a prefix of the slots (a non-null slot i   *)
(* has a non-null slot i - 1), and right after fail_high(move, ..., ply)   *)
(* is_killer(move, ply) holds.                                             *)
(***************************************************************************)
KillersDistinct(h, ply) ==
    \A i, j \in KillerSlots :
        (i < j /\ get_killer(h, i, ply) # MOVE_NULL)
            => get_killer(h, i, ply) # get_killer(h, j, ply)

KillersPrefix(h, ply) ==
    \A i \in KillerSlots \ { 0 } :
        get_killer(h, i, ply) # MOVE_NULL => get_killer(h, i - 1, ply) # MOVE_NULL

C31_KillersDistinctPrefix ==
    hlast.nonnull =>
        /\ \A ply \in HistPlies : KillersDistinct(hist, ply) /\ KillersPrefix(hist, ply)
        /\ FailHighDone => is_killer(hist, hlast.move, hlast.ply)

\* Only non-null moves so far: fail_high() was given the move of the last
\* slot of a full ply, which it leaves where it is, while the other ply holds
\* a shorter prefix.
C31_Witness ==
    /\ hlast.nonnull
    /\ FailHighDone
    /\ \A i \in KillerSlots : get_killer(hist, i, hlast.ply) # MOVE_NULL
    /\ get_killer(hist, NUM_KILLERS - 1, hlast.ply) = hlast.move
    /\ hist.m_killers = hlast.snap.m_killers
    /\ \E ply \in HistPlies \ { hlast.ply } :
            /\ get_killer(hist, 0, ply) # MOVE_NULL
            /\ get_killer(hist, 1, ply) = MOVE_NULL

====
